---- MODULE Spec2Model ----
(***************************************************************************)
(* ailint: configuration resolution (ConfigLoader, DirectoryScanner), the  *)
(* annotation block parser (AISpecBlockParser) and the rule batcher        *)
(* (SendRulesToAI), as state machines.                                     *)
(*                                                                         *)
(* Strings whose characters matter (rule names, override patterns, marker  *)
(* name lists, source lines) are sequences of one-character strings.       *)
(* An optional value (a field that may be undefined, a Map entry that may  *)
(* be absent, a nullable result) is a sequence of length 0 or 1.           *)
(***************************************************************************)
EXTENDS Integers, Sequences, FiniteSets, TLC

VARIABLES
    fs,                    \* directory -> the text of its ailintconfig.json, if any
    configCache,           \* ConfigLoader.configCache
    directoryConfigCache,  \* ConfigLoader.directoryConfigCache
    scannerCache,          \* DirectoryScanner.configCache
    lastOp,                \* the last call made on the scanner and what it gave
    chunker,               \* SendRulesToAI.chunkRules: its locals, loop by loop
    parser,                \* AISpecBlockParser.parseFile: its locals, line by line
    sender                 \* SendRulesToAI.validateRules: its locals, call by call

-----------------------------------------------------------------------------
(* Optional values *)

None == << >>
Some(x) == << x >>
IsSome(o) == Len(o) = 1
Get(o) == o[1]

(* a JS undefined string field *)
Undef == "undefined"

(* the three procedures before they are called *)
IdleChunker == [pc |-> "idle"]
IdleParser == [pc |-> "idle"]
IdleSender == [pc |-> "idle"]

-----------------------------------------------------------------------------
(* The directory tree: a chain 0 (filesystem root) .. MaxDir.              *)

MaxDir == 2

Dirs == 0..MaxDir

\* path.dirname: the parent directory; the root is its own parent
Dirname(d) == IF d = 0 THEN 0 ELSE d - 1

-----------------------------------------------------------------------------
(* Rule names, override patterns, API parameters *)

RuleNames == { <<"a","b">>, <<"a","b","a">>, <<"b">> }

ApiConfig(u, m, k, t) == [baseUrl |-> u, modelName |-> m, apiKey |-> k, temperature |-> t]

\* static/ailintconfig.base.json: the built-in baseline's apiConfig
BuiltinApi == ApiConfig("u0", "m0", "k0", "t0")
ApiOne == ApiConfig("u1", "m1", "k1", "t1")
ApiTwo == ApiConfig("u2", "m2", "k2", "t2")

\* Partial<ApiConfig> values of apiConfigRuleOverrides
OnlyModel == ApiConfig(Undef, "m9", Undef, Undef)
UrlAndTemp == ApiConfig("u8", Undef, Undef, "t8")
OnlyTemp == ApiConfig(Undef, Undef, Undef, "t7")

\* an AilintConfig, and the text of an ailintconfig.json that spells one
\* out; apiConfigRuleOverrides is the members of the object in the order
\* they are written
ConfigFile(mode, ext, mime, ign, git, api, ov) ==
    [baseConfig |-> mode, includeExtensions |-> ext, includeMimeTypes |-> mime,
     ignore |-> ign, useGitIgnore |-> git, apiConfig |-> api,
     apiConfigRuleOverrides |-> ov]

\* one that sets no list and no useGitIgnore
RawConfig(mode, api, ov) == ConfigFile(mode, None, None, None, None, api, ov)

ConfigFiles ==
    { RawConfig("empty", Some(ApiOne), None),
      RawConfig("default", None, Some(<< << <<"a","*">>, OnlyModel >> >>)),
      RawConfig(Undef, Some(ApiTwo), None),
      RawConfig(Undef, None,
                Some(<< << <<"a","b">>, UrlAndTemp >>, << <<"a","b","*">>, OnlyTemp >> >>)),
      RawConfig("empty", None, Some(<< << <<"a","*">>, OnlyModel >> >>)),
      RawConfig("bogus", Some(ApiOne), None),
      RawConfig("empty", Some(ApiOne), Some(<< << <<"*">>, OnlyModel >> >>)) }

\* static/ailintconfig.base.json as loadBaseConfig returns it
BaseConfigFile ==
    ConfigFile("default", Some(<< ".ts", ".js" >>), Some(<< "text/plain" >>),
               Some(<< "node_modules" >>), Some(TRUE), Some(BuiltinApi), None)

-----------------------------------------------------------------------------
(* Outcomes of the loader's and scanner's async functions: a value, a      *)
(* thrown error, or no return at all; each carries the caches as the call  *)
(* left them.                                                              *)

Ok(v, cc, dc) == [kind |-> "ok", err |-> "", val |-> Some(v), cc |-> cc, dc |-> dc]
OkNull(cc, dc) == [kind |-> "ok", err |-> "", val |-> None, cc |-> cc, dc |-> dc]
Throw(e, cc, dc) == [kind |-> "throw", err |-> e, val |-> None, cc |-> cc, dc |-> dc]
Hang(cc, dc) == [kind |-> "hang", err |-> "", val |-> None, cc |-> cc, dc |-> dc]

ErrInvalidBaseConfig == "Invalid baseConfig value"
ErrInvalidPattern == "Invalid rule pattern"
ErrDuplicatePattern == "Duplicate rule pattern"
ErrNoParent == "No parent configuration found"
ErrENOENT == "ENOENT"
ErrNoBaseApiConfig == "Rule override specified but no base apiConfig found"

-----------------------------------------------------------------------------
(* ConfigLoader *)

AsteriskCount(pattern) == Cardinality({ i \in 1..Len(pattern) : pattern[i] = "*" })

\* IsValidRulePattern that takes a lone asterisk for a prefix pattern
IsValidRulePatternBarePrefix(pattern) ==
    \/ AsteriskCount(pattern) = 0
    \/ /\ AsteriskCount(pattern) = 1
       /\ pattern[Len(pattern)] = "*"

IsValidRulePattern(pattern) ==
    \/ AsteriskCount(pattern) = 0
    \/ /\ AsteriskCount(pattern) = 1
       /\ pattern[Len(pattern)] = "*"
       /\ Len(pattern) > 1

\* validateRulePatterns throws at the i-th key: seen before, or not valid
BadPattern(overrides, i) ==
    \/ \E j \in 1..(i-1) : overrides[j][1] = overrides[i][1]
    \/ ~IsValidRulePattern(overrides[i][1])

\* the index of the key validateRulePatterns throws at, 0 when it returns
FirstBadPattern(overrides) ==
    IF \E i \in 1..Len(overrides) : BadPattern(overrides, i)
    THEN CHOOSE i \in 1..Len(overrides) :
            BadPattern(overrides, i) /\ \A j \in 1..(i-1) : ~BadPattern(overrides, j)
    ELSE 0

\* the error validateRulePatterns throws, "" when it returns
ValidateRulePatterns(overrides) ==
    IF FirstBadPattern(overrides) = 0 THEN ""
    ELSE IF \E j \in 1..(FirstBadPattern(overrides) - 1) :
                overrides[j][1] = overrides[FirstBadPattern(overrides)][1]
         THEN ErrDuplicatePattern
         ELSE ErrInvalidPattern

\* the pattern the message of that error quotes
ThrownPattern(overrides) ==
    IF FirstBadPattern(overrides) = 0 THEN << >>
    ELSE overrides[FirstBadPattern(overrides)][1]

\* JSON.parse of an object's members: a name written again takes the place
\* of the earlier member and gives it its value
RECURSIVE ParseMembers(_, _)
ParseMembers(obj, members) ==
    IF members = << >> THEN obj
    ELSE ParseMembers(
            IF \E i \in 1..Len(obj) : obj[i][1] = Head(members)[1]
            THEN [i \in 1..Len(obj) |->
                    IF obj[i][1] = Head(members)[1] THEN Head(members) ELSE obj[i]]
            ELSE Append(obj, Head(members)),
            Tail(members))

\* JSON.parse(content) as AilintConfig
JsonParse(content) ==
    [content EXCEPT !.apiConfigRuleOverrides =
        IF IsSome(@) THEN Some(ParseMembers(<< >>, Get(@))) ELSE None]

\* if (!config.baseConfig) config.baseConfig = 'parent'
DefaultBaseConfig(raw) ==
    IF raw.baseConfig = Undef THEN [raw EXCEPT !.baseConfig = "parent"] ELSE raw

\* a || b on optional objects
OrElse(a, b) == IF IsSome(a) THEN a ELSE b

\* a || [] on an optional list
OrEmpty(list) == IF IsSome(list) THEN Get(list) ELSE << >>

\* MergeOnto with || for ??: a local useGitIgnore of false gives way
MergeOntoTruthy(config, base) ==
    ConfigFile(base.baseConfig,
               Some(OrEmpty(base.includeExtensions) \o OrEmpty(config.includeExtensions)),
               Some(OrEmpty(base.includeMimeTypes) \o OrEmpty(config.includeMimeTypes)),
               Some(OrEmpty(base.ignore) \o OrEmpty(config.ignore)),
               IF config.useGitIgnore = Some(TRUE) THEN config.useGitIgnore
               ELSE base.useGitIgnore,
               OrElse(config.apiConfig, base.apiConfig),
               OrElse(config.apiConfigRuleOverrides, base.apiConfigRuleOverrides))

\* MergeOnto with the baseConfig the file itself has
MergeOntoKeepingMode(config, base) ==
    ConfigFile(config.baseConfig,
               Some(OrEmpty(base.includeExtensions) \o OrEmpty(config.includeExtensions)),
               Some(OrEmpty(base.includeMimeTypes) \o OrEmpty(config.includeMimeTypes)),
               Some(OrEmpty(base.ignore) \o OrEmpty(config.ignore)),
               OrElse(config.useGitIgnore, base.useGitIgnore),
               OrElse(config.apiConfig, base.apiConfig),
               OrElse(config.apiConfigRuleOverrides, base.apiConfigRuleOverrides))

\* the object mergeWithBase returns for a config and its baseline
MergeOnto(config, base) ==
    ConfigFile(base.baseConfig,
               Some(OrEmpty(base.includeExtensions) \o OrEmpty(config.includeExtensions)),
               Some(OrEmpty(base.includeMimeTypes) \o OrEmpty(config.includeMimeTypes)),
               Some(OrEmpty(base.ignore) \o OrEmpty(config.ignore)),
               OrElse(config.useGitIgnore, base.useGitIgnore),
               OrElse(config.apiConfig, base.apiConfig),
               OrElse(config.apiConfigRuleOverrides, base.apiConfigRuleOverrides))

\* mergeWithBase, 'empty' branch, with the lists left as the file has them
AsIsNoLists(config) == config

\* mergeWithBase, 'empty' branch
AsIs(config) ==
    ConfigFile("empty", Some(OrEmpty(config.includeExtensions)),
               Some(OrEmpty(config.includeMimeTypes)), Some(OrEmpty(config.ignore)),
               config.useGitIgnore, config.apiConfig, config.apiConfigRuleOverrides)

RECURSIVE MergeWithBase(_, _, _, _), FindParentConfig(_, _, _), WalkParents(_, _, _, _),
          MoveUp(_, _, _, _)

\* mergeWithBase, 'parent' branch, once findParentConfig has given p
MergeWithParent(config, cc, p) ==
    IF p.kind # "ok" THEN p
    ELSE IF ~IsSome(p.val) THEN Throw(ErrNoParent, cc, p.dc)
    ELSE Ok(MergeOnto(config, Get(p.val)), cc, p.dc)

MergeWithBase(config, configDir, cc, dc) ==
    IF config.baseConfig = "empty"
    THEN Ok(AsIs(config), cc, dc)
    ELSE IF config.baseConfig = "parent"
    THEN MergeWithParent(config, cc, FindParentConfig(configDir, cc, dc))
    ELSE Ok(MergeOnto(config, [BaseConfigFile EXCEPT !.baseConfig = "default"]), cc, dc)

\* directoryConfigCache entries: None = no entry, Some(None) = null,
\* Some(Some(c)) = { config: c, filePath }
FindParentConfig(startDir, cc, dc) ==
    IF IsSome(dc[startDir])
    THEN [kind |-> "ok", err |-> "", val |-> Get(dc[startDir]), cc |-> cc, dc |-> dc]
    ELSE WalkParents(startDir, Dirname(startDir), cc, dc)

\* findParentConfig: "Move to parent directory", or null at the root
MoveUp(startDir, currentDir, cc, dc) ==
    IF Dirname(currentDir) = currentDir
    THEN OkNull(cc, [dc EXCEPT ![startDir] = Some(None)])
    ELSE WalkParents(startDir, Dirname(currentDir), cc, dc)

\* findParentConfig, once mergeWithBase of the config found at currentDir
\* has given m: cache and return it, rethrow, or swallow the error
WalkMerged(startDir, currentDir, cc, m) ==
    IF m.kind = "ok"
    THEN Ok(Get(m.val), cc,
            [m.dc EXCEPT ![currentDir] = Some(m.val), ![startDir] = Some(m.val)])
    ELSE IF m.kind = "hang" THEN m
    ELSE IF m.err = ErrInvalidBaseConfig THEN m
    ELSE MoveUp(startDir, currentDir, cc, m.dc)

\* findParentConfig, the config file read at currentDir
WalkRead(startDir, currentDir, cc, dc, config) ==
    IF config.baseConfig \notin {"empty", "default", "parent"}
    THEN Throw(ErrInvalidBaseConfig, cc, dc)
    ELSE IF /\ IsSome(config.apiConfigRuleOverrides)
            /\ ValidateRulePatterns(Get(config.apiConfigRuleOverrides)) # ""
    THEN MoveUp(startDir, currentDir, cc, dc)
    ELSE IF config.baseConfig = "parent" /\ Dirname(currentDir) = currentDir
    \* the root's own inheriting config: mergeWithBase calls
    \* findParentConfig(root), which reads this file again, without end
    THEN Hang(cc, dc)
    ELSE WalkMerged(startDir, currentDir, cc, MergeWithBase(config, currentDir, cc, dc))

\* the while (true) loop of findParentConfig, at currentDir
WalkParents(startDir, currentDir, cc, dc) ==
    IF IsSome(dc[currentDir])
    THEN [kind |-> "ok", err |-> "", val |-> Get(dc[currentDir]), cc |-> cc,
          dc |-> [dc EXCEPT ![startDir] = dc[currentDir]]]
    ELSE IF ~IsSome(fs[currentDir]) THEN MoveUp(startDir, currentDir, cc, dc)
    ELSE WalkRead(startDir, currentDir, cc, dc,
                  DefaultBaseConfig(JsonParse(Get(fs[currentDir]))))

\* loadConfig, once mergeWithBase has given m
LoadMerged(configPath, cc, m) ==
    IF m.kind = "ok" THEN Ok(Get(m.val), [cc EXCEPT ![configPath] = m.val], m.dc) ELSE m

\* loadConfig, the file read
LoadRead(configPath, cc, dc, config) ==
    IF config.baseConfig \notin {"empty", "default", "parent"}
    THEN Throw(ErrInvalidBaseConfig, cc, dc)
    ELSE IF /\ IsSome(config.apiConfigRuleOverrides)
            /\ ValidateRulePatterns(Get(config.apiConfigRuleOverrides)) # ""
    THEN Throw(ValidateRulePatterns(Get(config.apiConfigRuleOverrides)), cc, dc)
    ELSE LoadMerged(configPath, cc, MergeWithBase(config, configPath, cc, dc))

\* loadConfig with no look at configCache before the file is read
LoadConfigAlwaysReading(configPath, cc, dc) ==
    IF ~IsSome(fs[configPath]) THEN Throw(ErrENOENT, cc, dc)
    ELSE LoadRead(configPath, cc, dc, DefaultBaseConfig(JsonParse(Get(fs[configPath]))))

LoadConfig(configPath, cc, dc) ==
    IF IsSome(cc[configPath]) THEN Ok(Get(cc[configPath]), cc, dc)
    ELSE IF ~IsSome(fs[configPath]) THEN Throw(ErrENOENT, cc, dc)
    ELSE LoadRead(configPath, cc, dc, DefaultBaseConfig(JsonParse(Get(fs[configPath]))))

\* the apiConfig strings of ConfigFiles hold no ${...} placeholder, which
\* expandApiConfig copies unchanged
LoadConfigWithExpandedApiConfig(configPath, cc, dc) == LoadConfig(configPath, cc, dc)

-----------------------------------------------------------------------------
(* ConfigLoader.expandApiConfig, on strings as sequences of characters.     *)
(* An environment is what dotenv read from .env and .local.env (parsed)     *)
(* and process.env (process): variable name to None or Some(value).         *)

\* a value that || lets through: neither undefined nor the empty string
Truthy(v) == IsSome(v) /\ Get(v) # << >>

\* vars[varName], undefined for a name the object does not have
EnvGet(vars, varName) == IF varName \in DOMAIN vars THEN vars[varName] ELSE None

\* the index of the first ":-" of a string, 0 if it has none
FirstSeparator(str) ==
    IF \E i \in 1..(Len(str) - 1) : str[i] = ":" /\ str[i + 1] = "-"
    THEN CHOOSE i \in 1..(Len(str) - 1) :
            /\ str[i] = ":" /\ str[i + 1] = "-"
            /\ \A j \in 1..(i - 1) : ~(str[j] = ":" /\ str[j + 1] = "-")
    ELSE 0

\* const [varName, ...defaultParts] = varExpression.split(':-')
VarName(varExpression) ==
    IF FirstSeparator(varExpression) = 0 THEN varExpression
    ELSE SubSeq(varExpression, 1, FirstSeparator(varExpression) - 1)

\* defaultParts.join(':-')
DefaultValue(varExpression) ==
    IF FirstSeparator(varExpression) = 0 THEN << >>
    ELSE SubSeq(varExpression, FirstSeparator(varExpression) + 2, Len(varExpression))

\* expanded.parsed?.[varName] || process.env[varName] || defaultValue
Replacement(varExpression, env) ==
    IF Truthy(EnvGet(env.parsed, VarName(varExpression)))
    THEN Get(EnvGet(env.parsed, VarName(varExpression)))
    ELSE IF Truthy(EnvGet(env.process, VarName(varExpression)))
    THEN Get(EnvGet(env.process, VarName(varExpression)))
    ELSE DefaultValue(varExpression)

\* where a match of /\$\{([^}]+)\}/ that starts at the head of value ends;
\* 0 if none starts there
MatchEnd(value) ==
    IF /\ Len(value) >= 4
       /\ value[1] = "$" /\ value[2] = "{" /\ value[3] # "}"
       /\ \E j \in 4..Len(value) : value[j] = "}"
    THEN CHOOSE j \in 4..Len(value) :
            value[j] = "}" /\ \A x \in 4..(j - 1) : value[x] # "}"
    ELSE 0

\* value.replace(/\$\{([^}]+)\}/g, (match, varExpression) => ...)
RECURSIVE ReplaceAll(_, _)
ReplaceAll(value, env) ==
    IF value = << >> THEN << >>
    ELSE IF MatchEnd(value) > 0
    THEN Replacement(SubSeq(value, 3, MatchEnd(value) - 1), env)
            \o ReplaceAll(SubSeq(value, MatchEnd(value) + 1, Len(value)), env)
    ELSE << Head(value) >> \o ReplaceAll(Tail(value), env)

\* value.includes('${')
IncludesDollarBrace(value) ==
    \E i \in 1..(Len(value) - 1) : value[i] = "$" /\ value[i + 1] = "{"

\* expandApiConfig on an apiConfig that is there
ExpandApiConfig(apiConfig, env) ==
    [key \in DOMAIN apiConfig |->
        IF IncludesDollarBrace(apiConfig[key]) THEN ReplaceAll(apiConfig[key], env)
        ELSE apiConfig[key]]

\* config.apiConfig = this.expandApiConfig(config.apiConfig), on the object
\* loadConfig returned, which is the one configCache holds
ExpandLoaded(configPath, r, env) ==
    IF r.kind # "ok" \/ ~IsSome(Get(r.val).apiConfig) THEN r
    ELSE Ok([Get(r.val) EXCEPT !.apiConfig = Some(ExpandApiConfig(Get(@), env))],
            [r.cc EXCEPT ![configPath] =
                Some([Get(r.val) EXCEPT !.apiConfig = Some(ExpandApiConfig(Get(@), env))])],
            r.dc)

\* loadConfigWithExpandedApiConfig in the environment env
LoadConfigWithExpandedApiConfigIn(env, configPath, cc, dc) ==
    ExpandLoaded(configPath, LoadConfig(configPath, cc, dc), env)

-----------------------------------------------------------------------------
(* DirectoryScanner *)

\* await access(configPath); await loadConfigWithExpandedApiConfig(configPath)
AccessAndLoad(dirPath, cc, dc) ==
    IF IsSome(fs[dirPath])
    THEN LoadConfigWithExpandedApiConfig(dirPath, cc, dc)
    ELSE Throw(ErrENOENT, cc, dc)

\* the result of a scanner call: as above, with the scanner's own cache
WithScanner(r, sc) ==
    [kind |-> r.kind, err |-> r.err, val |-> r.val, sc |-> sc, cc |-> r.cc, dc |-> r.dc]

RECURSIVE LoadConfigForDirectory(_, _, _, _)

\* loadConfigForDirectory: the parent's result p, cached for dirPath too
LoadDirFromParent(dirPath, p) ==
    IF p.kind = "ok" THEN [p EXCEPT !.sc = [p.sc EXCEPT ![dirPath] = Some(p.val)]] ELSE p

\* loadConfigForDirectory, once the try block has given r
LoadDirLoaded(dirPath, sc, r) ==
    IF r.kind = "ok" THEN WithScanner(r, [sc EXCEPT ![dirPath] = Some(r.val)])
    ELSE IF r.kind = "hang" THEN WithScanner(r, sc)
    ELSE IF Dirname(dirPath) = dirPath
    THEN WithScanner(OkNull(r.cc, r.dc), [sc EXCEPT ![dirPath] = Some(None)])
    ELSE LoadDirFromParent(dirPath, LoadConfigForDirectory(Dirname(dirPath), sc, r.cc, r.dc))

LoadConfigForDirectory(dirPath, sc, cc, dc) ==
    IF IsSome(sc[dirPath])
    THEN [kind |-> "ok", err |-> "", val |-> Get(sc[dirPath]), sc |-> sc, cc |-> cc, dc |-> dc]
    ELSE LoadDirLoaded(dirPath, sc, AccessAndLoad(dirPath, cc, dc))

RECURSIVE CollectConfigsWithPaths(_, _, _, _, _)

\* collectConfigsWithPaths, once the try block at currentPath has given r
CollectLoaded(currentPath, depth, configs, r) ==
    IF r.kind = "hang" THEN [kind |-> "hang", configs |-> configs, cc |-> r.cc, dc |-> r.dc]
    ELSE IF Dirname(currentPath) = currentPath
    THEN [kind |-> "ok", cc |-> r.cc, dc |-> r.dc,
          configs |-> IF r.kind = "ok"
                      THEN Append(configs, [config |-> Get(r.val),
                                            configPath |-> currentPath, depth |-> depth])
                      ELSE configs]
    ELSE CollectConfigsWithPaths(
            Dirname(currentPath), depth + 1,
            IF r.kind = "ok"
            THEN Append(configs, [config |-> Get(r.val),
                                  configPath |-> currentPath, depth |-> depth])
            ELSE configs,
            r.cc, r.dc)

\* the while (true) loop of collectConfigsWithPaths, at currentPath
CollectConfigsWithPaths(currentPath, depth, configs, cc, dc) ==
    CollectLoaded(currentPath, depth, configs, AccessAndLoad(currentPath, cc, dc))

Includes(str, ch) == \E i \in 1..Len(str) : str[i] = ch

\* String.prototype.startsWith
StartsWith(str, prefix) ==
    /\ Len(prefix) <= Len(str)
    /\ SubSeq(str, 1, Len(prefix)) = prefix

PatternMatches(pattern, ruleName) ==
    IF ~Includes(pattern, "*") THEN pattern = ruleName
    ELSE StartsWith(ruleName, SubSeq(pattern, 1, Len(pattern) - 1))

\* CompareMatches with the directory tie-break the wrong way round
CompareMatchesOuterFirst(a, b) ==
    IF a.isExact # b.isExact THEN (IF a.isExact THEN -1 ELSE 1)
    ELSE IF a.prefixLength # b.prefixLength THEN b.prefixLength - a.prefixLength
    ELSE b.depth - a.depth

\* the comparator handed to matches.sort
CompareMatches(a, b) ==
    IF a.isExact # b.isExact THEN (IF a.isExact THEN -1 ELSE 1)
    ELSE IF a.prefixLength # b.prefixLength THEN b.prefixLength - a.prefixLength
    ELSE a.depth - b.depth

\* Array.prototype.sort is stable: an element goes after every element that
\* does not compare greater than it
RECURSIVE InsertMatch(_, _)
InsertMatch(sorted, m) ==
    IF sorted = << >> THEN << m >>
    ELSE IF CompareMatches(Head(sorted), m) <= 0
    THEN << Head(sorted) >> \o InsertMatch(Tail(sorted), m)
    ELSE << m >> \o sorted

RECURSIVE SortMatches(_)
SortMatches(ms) ==
    IF ms = << >> THEN << >>
    ELSE InsertMatch(SortMatches(SubSeq(ms, 1, Len(ms) - 1)), ms[Len(ms)])

\* the Match pushed for an override entry of config c
MatchOf(ruleName, c, entry) ==
    [override |-> entry[2],
     baseConfig |-> c.config.apiConfig,
     pattern |-> entry[1],
     isExact |-> ~Includes(entry[1], "*"),
     prefixLength |-> IF ~Includes(entry[1], "*") THEN Len(ruleName) ELSE Len(entry[1]) - 1,
     depth |-> c.depth]

\* the matches of one config, in the order of Object.entries
RECURSIVE MatchesOf(_, _, _)
MatchesOf(ruleName, c, entries) ==
    IF entries = << >> THEN << >>
    ELSE (IF PatternMatches(Head(entries)[1], ruleName)
          THEN << MatchOf(ruleName, c, Head(entries)) >> ELSE << >>)
         \o MatchesOf(ruleName, c, Tail(entries))

RECURSIVE CollectMatches(_, _)
CollectMatches(ruleName, configsWithPaths) ==
    IF configsWithPaths = << >> THEN << >>
    ELSE (IF IsSome(Head(configsWithPaths).config.apiConfigRuleOverrides)
          THEN MatchesOf(ruleName, Head(configsWithPaths),
                         Get(Head(configsWithPaths).config.apiConfigRuleOverrides))
          ELSE << >>)
         \o CollectMatches(ruleName, Tail(configsWithPaths))

\* matches.sort(...); return matches[0]
BestOf(matches) == IF matches = << >> THEN None ELSE Some(Head(SortMatches(matches)))

FindBestMatchingOverride(ruleName, configsWithPaths) ==
    BestOf(CollectMatches(ruleName, configsWithPaths))

\* MergeOverride that lets the base win over the override's modelName
MergeOverrideBaseModel(override, baseConfig) ==
    [baseUrl |-> IF override.baseUrl # Undef THEN override.baseUrl ELSE baseConfig.baseUrl,
     modelName |-> baseConfig.modelName,
     apiKey |-> IF override.apiKey # Undef THEN override.apiKey ELSE baseConfig.apiKey,
     temperature |-> IF override.temperature # Undef
                     THEN override.temperature ELSE baseConfig.temperature]

\* a ?? b on optional strings
Coalesce(a, b) == IF a # Undef THEN a ELSE b

MergeOverride(override, baseConfig) ==
    ApiConfig(Coalesce(override.baseUrl, baseConfig.baseUrl),
              Coalesce(override.modelName, baseConfig.modelName),
              Coalesce(override.apiKey, baseConfig.apiKey),
              Coalesce(override.temperature, baseConfig.temperature))

\* configsWithPaths[configsWithPaths.length - 1]
FallbackEntry(configsWithPaths) == configsWithPaths[Len(configsWithPaths)]

\* ResolveWith that, for a winning override without a base, borrows the
\* apiConfig of the farthest config collected
ResolveWithBorrowedBase(c, bestMatch) ==
    LET out(kind, err, val) ==
            [kind |-> kind, err |-> err, val |-> val, best |-> bestMatch,
             configs |-> c.configs, cc |-> c.cc, dc |-> c.dc]
    IN  IF c.configs = << >> THEN out("ok", "", None)
        ELSE IF IsSome(bestMatch)
        THEN IF ~IsSome(Get(bestMatch).baseConfig)
             THEN IF IsSome(FallbackEntry(c.configs).config.apiConfig)
                  THEN out("ok", "",
                           Some(MergeOverride(Get(bestMatch).override,
                                              Get(FallbackEntry(c.configs).config.apiConfig))))
                  ELSE out("throw", ErrNoBaseApiConfig, None)
             ELSE out("ok", "", Some(MergeOverride(Get(bestMatch).override,
                                                   Get(Get(bestMatch).baseConfig))))
        ELSE out("ok", "", FallbackEntry(c.configs).config.apiConfig)

\* resolveApiConfigForFile, once the configs are collected and the best
\* match found
ResolveWith(c, bestMatch) ==
    LET out(kind, err, val) ==
            [kind |-> kind, err |-> err, val |-> val, best |-> bestMatch,
             configs |-> c.configs, cc |-> c.cc, dc |-> c.dc]
    IN  IF c.configs = << >> THEN out("ok", "", None)
        ELSE IF IsSome(bestMatch)
        THEN IF ~IsSome(Get(bestMatch).baseConfig)
             THEN out("throw", ErrNoBaseApiConfig, None)
             ELSE out("ok", "", Some(MergeOverride(Get(bestMatch).override,
                                                   Get(Get(bestMatch).baseConfig))))
        ELSE out("ok", "", FallbackEntry(c.configs).config.apiConfig)

ResolveCollected(ruleName, c) ==
    IF c.kind = "hang"
    THEN [kind |-> "hang", err |-> "", val |-> None, best |-> None,
          configs |-> c.configs, cc |-> c.cc, dc |-> c.dc]
    ELSE ResolveWith(c, FindBestMatchingOverride(ruleName, c.configs))

ResolveApiConfigForFile(dirPath, ruleName, cc, dc) ==
    ResolveCollected(ruleName, CollectConfigsWithPaths(dirPath, 0, << >>, cc, dc))

-----------------------------------------------------------------------------
(* The scanner under calls in any order, on any tree of config files.      *)

resolveVars ==
    << fs, configCache, directoryConfigCache, scannerCache, lastOp, chunker, parser, sender >>

NoOp ==
    [op |-> "none", dir |-> 0, rule |-> << >>, kind |-> "ok", err |-> "",
     api |-> None, cfg |-> None, best |-> None, configs |-> << >>]

EmptyCache == [d \in Dirs |-> None]

InitResolve ==
    /\ fs \in [Dirs -> {None} \cup { Some(f) : f \in ConfigFiles }]
    /\ configCache = EmptyCache
    /\ directoryConfigCache = EmptyCache
    /\ scannerCache = EmptyCache
    /\ lastOp = NoOp
    /\ chunker = IdleChunker
    /\ parser = IdleParser
    /\ sender = IdleSender

Hung == lastOp.kind = "hang"

Resolved(d, name, r) ==
    /\ configCache' = r.cc
    /\ directoryConfigCache' = r.dc
    /\ lastOp' = [op |-> "resolve", dir |-> d, rule |-> name, kind |-> r.kind,
                  err |-> r.err, api |-> r.val, cfg |-> None, best |-> r.best,
                  configs |-> r.configs]

ResolveCall(d, name) ==
    /\ ~Hung
    /\ Resolved(d, name, ResolveApiConfigForFile(d, name, configCache, directoryConfigCache))
    /\ UNCHANGED << fs, scannerCache, chunker, parser, sender >>

DirLoaded(d, r) ==
    /\ configCache' = r.cc
    /\ directoryConfigCache' = r.dc
    /\ scannerCache' = r.sc
    /\ lastOp' = [op |-> "loadDir", dir |-> d, rule |-> << >>, kind |-> r.kind,
                  err |-> r.err, api |-> None, cfg |-> r.val, best |-> None,
                  configs |-> << >>]

LoadDirCall(d) ==
    /\ ~Hung
    /\ DirLoaded(d, LoadConfigForDirectory(d, scannerCache, configCache, directoryConfigCache))
    /\ UNCHANGED << fs, chunker, parser, sender >>

\* DirectoryScanner.clearCache
ClearCache ==
    /\ ~Hung
    /\ configCache' = EmptyCache
    /\ directoryConfigCache' = EmptyCache
    /\ scannerCache' = EmptyCache
    /\ lastOp' = [NoOp EXCEPT !.op = "clearScanner"]
    /\ UNCHANGED << fs, chunker, parser, sender >>

NextResolve ==
    \/ \E d \in Dirs, name \in RuleNames : ResolveCall(d, name)
    \/ \E d \in Dirs : LoadDirCall(d)
    \/ ClearCache

SpecResolve == InitResolve /\ [][NextResolve]_resolveVars

-----------------------------------------------------------------------------
(* What a resolveApiConfigForFile call had to choose from, read off the    *)
(* loader's cache after the call.                                          *)

\* the directories from d up to the root
Chain(d) == 0..d

\* those whose config the loader holds
Loaded(d) == { x \in Chain(d) : IsSome(configCache[x]) }

ConfigOf(x) == Get(configCache[x])

OverridesOf(x) ==
    IF IsSome(configCache[x]) /\ IsSome(ConfigOf(x).apiConfigRuleOverrides)
    THEN LET ov == Get(ConfigOf(x).apiConfigRuleOverrides)
         IN  { [dir |-> x, pattern |-> ov[i][1], override |-> ov[i][2]] : i \in 1..Len(ov) }
    ELSE {}

IsExactPattern(pat) == \A i \in 1..Len(pat) : pat[i] # "*"

NameMatches(pat, name) ==
    IF IsExactPattern(pat) THEN pat = name
    ELSE \E k \in 0..Len(name) : SubSeq(name, 1, k) \o << "*" >> = pat

Candidates(d, name) ==
    { c \in UNION { OverridesOf(x) : x \in Loaded(d) } : NameMatches(c.pattern, name) }

\* c outranks w: exact over wildcard, then the longer prefix, then the
\* smaller walk-distance from the file's directory
Outranks(c, w) ==
    \/ IsExactPattern(c.pattern) /\ ~IsExactPattern(w.pattern)
    \/ /\ ~IsExactPattern(c.pattern) /\ ~IsExactPattern(w.pattern)
       /\ Len(c.pattern) > Len(w.pattern)
    \/ /\ IsExactPattern(c.pattern) = IsExactPattern(w.pattern)
       /\ Len(c.pattern) = Len(w.pattern)
       /\ c.dir > w.dir

Returned == lastOp.op = "resolve" /\ lastOp.kind # "hang"

Winner ==
    [dir |-> lastOp.dir - Get(lastOp.best).depth,
     pattern |-> Get(lastOp.best).pattern,
     override |-> Get(lastOp.best).override]

\* C3: the override resolveApiConfigForFile picks is one of the matching
\* patterns of the configs on the file's ancestor chain, and none of them
\* outranks it (exact over wildcard, longer prefix over shorter, nearer
\* directory over farther); it picks none only when none matches.
C3_OverridePriority ==
    Returned =>
        IF Candidates(lastOp.dir, lastOp.rule) = {}
        THEN lastOp.best = None
        ELSE /\ IsSome(lastOp.best)
             /\ Winner \in Candidates(lastOp.dir, lastOp.rule)
             /\ \A c \in Candidates(lastOp.dir, lastOp.rule) : ~Outranks(c, Winner)

\* a wildcard pattern present in two directories of the chain and a shorter
\* one in a third: the nearer directory's entry won
C3_Witness ==
    /\ Returned
    /\ IsSome(lastOp.best)
    /\ \E c1, c2 \in Candidates(lastOp.dir, lastOp.rule) :
          /\ c1.pattern = Winner.pattern /\ c1.dir < Winner.dir
          /\ Len(c2.pattern) < Len(Winner.pattern)

\* C4: with no matching override anywhere on the chain, the result is the
\* base apiConfig of the nearest loaded config.
C4_NearestBase ==
    (/\ Returned
     /\ Loaded(lastOp.dir) # {}
     /\ Candidates(lastOp.dir, lastOp.rule) = {})
    => lastOp.api = ConfigOf(CHOOSE x \in Loaded(lastOp.dir) :
                                \A y \in Loaded(lastOp.dir) : y <= x).apiConfig

\* the directories of the chain whose own file declares the pattern
Declaring(d, pat) ==
    { x \in Chain(d) :
        /\ IsSome(fs[x])
        /\ IsSome(Get(fs[x]).apiConfigRuleOverrides)
        /\ \E i \in 1..Len(Get(Get(fs[x]).apiConfigRuleOverrides)) :
              Get(Get(fs[x]).apiConfigRuleOverrides)[i][1] = pat }

FieldByField(api, override, base) ==
    /\ api.baseUrl = (IF override.baseUrl # Undef THEN override.baseUrl ELSE base.baseUrl)
    /\ api.modelName = (IF override.modelName # Undef THEN override.modelName
                        ELSE base.modelName)
    /\ api.apiKey = (IF override.apiKey # Undef THEN override.apiKey ELSE base.apiKey)
    /\ api.temperature = (IF override.temperature # Undef THEN override.temperature
                          ELSE base.temperature)

\* C5 as claimed: the fields the winning override leaves unset come from the
\* base apiConfig of a directory whose own config file declares the pattern.
C5_BaseOfDeclaringFile ==
    (Returned /\ lastOp.kind = "ok" /\ IsSome(lastOp.best)) =>
        \E x \in Declaring(lastOp.dir, Winner.pattern) :
            /\ IsSome(configCache[x])
            /\ IsSome(ConfigOf(x).apiConfig)
            /\ FieldByField(Get(lastOp.api), Winner.override, Get(ConfigOf(x).apiConfig))

\* C5: when an override wins, each field of the result is the override's if
\* it sets it, and otherwise that of the base apiConfig of the resolved
\* configuration of the directory the winning match was collected from.
C5_BaseOfMatchDirectory ==
    (Returned /\ lastOp.kind = "ok" /\ IsSome(lastOp.best)) =>
        /\ IsSome(lastOp.api)
        /\ IsSome(configCache[Winner.dir])
        /\ IsSome(ConfigOf(Winner.dir).apiConfig)
        /\ FieldByField(Get(lastOp.api), Winner.override,
                        Get(ConfigOf(Winner.dir).apiConfig))

\* an override that sets some fields only won, in a directory that did not
\* declare it, over the same pattern in the directory that did
C5_Witness ==
    /\ Returned /\ lastOp.kind = "ok" /\ IsSome(lastOp.best)
    /\ Winner.override.baseUrl = Undef
    /\ Winner.dir \notin Declaring(lastOp.dir, Winner.pattern)
    /\ \E x \in Declaring(lastOp.dir, Winner.pattern) :
          /\ IsSome(configCache[x])
          /\ ConfigOf(x).apiConfig # ConfigOf(Winner.dir).apiConfig

\* a config file that fails the loader's validation
PatternsInvalid(raw) ==
    /\ IsSome(raw.apiConfigRuleOverrides)
    /\ \E i \in 1..Len(Get(raw.apiConfigRuleOverrides)) :
          LET pat == Get(raw.apiConfigRuleOverrides)[i][1]
          IN  \E k \in 1..Len(pat) : pat[k] = "*" /\ (k < Len(pat) \/ Len(pat) = 1)

FailsValidation(x) ==
    /\ IsSome(fs[x])
    /\ \/ Get(fs[x]).baseConfig \notin {"empty", "default", "parent", Undef}
       \/ PatternsInvalid(Get(fs[x]))
       \/ Get(fs[x]).baseConfig = Undef /\ \A y \in Chain(x) \ {x} : ~IsSome(fs[y])

\* C6: a config file that fails validation on the ancestor chain of a
\* rule's file makes resolving that file fail with a configuration error.
C6_InvalidConfigAborts ==
    (lastOp.op = "resolve" /\ \E x \in Chain(lastOp.dir) : FailsValidation(x))
    => lastOp.kind = "throw"

\* C19: when the winning override was collected from a directory whose
\* resolved configuration has no apiConfig, resolveApiConfigForFile throws
\* the no-base error and returns no tuple, whatever apiConfig the other
\* directories of the chain have; it throws that error in no other case.
C19_NoBaseIsAnError ==
    Returned =>
        /\ ( IsSome(lastOp.best) /\ ~IsSome(ConfigOf(Winner.dir).apiConfig) )
           => /\ lastOp.kind = "throw"
              /\ lastOp.err = ErrNoBaseApiConfig
              /\ lastOp.api = None
        /\ lastOp.kind = "throw"
           => /\ lastOp.err = ErrNoBaseApiConfig
              /\ IsSome(lastOp.best)
              /\ IsSome(configCache[Winner.dir])
              /\ ~IsSome(ConfigOf(Winner.dir).apiConfig)

\* the winning override's directory has no apiConfig while directories on
\* both sides of it on the chain have one
C19_Witness ==
    /\ Returned
    /\ lastOp.kind = "throw"
    /\ IsSome(lastOp.best)
    /\ ~IsSome(ConfigOf(Winner.dir).apiConfig)
    /\ \E x, y \in Loaded(lastOp.dir) :
          /\ x < Winner.dir /\ Winner.dir < y
          /\ IsSome(ConfigOf(x).apiConfig)
          /\ IsSome(ConfigOf(y).apiConfig)


-----------------------------------------------------------------------------
(* The loader under loadConfig calls in any order, on any tree of config    *)
(* files.                                                                   *)

\* the texts a directory's ailintconfig.json may have: self-contained, on
\* the built-in baseline, inheriting (two of them), one that writes a
\* pattern twice, one with patterns that are not valid, and one with a
\* baseConfig and a pattern that are not valid
LoaderFiles ==
    { ConfigFile("empty", Some(<< ".e" >>), None, None, Some(FALSE), Some(ApiOne), None),
      ConfigFile("default", Some(<< ".d" >>), None, Some(<< "dist" >>), Some(FALSE), None,
                 Some(<< << <<"a","*">>, OnlyModel >> >>)),
      ConfigFile(Undef, Some(<< ".p" >>), Some(<< "p/mime" >>), None, Some(TRUE),
                 Some(ApiTwo), Some(<< << <<"a","b">>, UrlAndTemp >> >>)),
      ConfigFile(Undef, None, None, Some(<< "q" >>), None, None, None),
      ConfigFile("empty", None, None, None, None, Some(ApiOne),
                 Some(<< << <<"a","*">>, OnlyModel >>, << <<"a","b">>, UrlAndTemp >>,
                         << <<"a","*">>, OnlyTemp >> >>)),
      ConfigFile("default", None, None, None, None, None,
                 Some(<< << <<"a","b">>, UrlAndTemp >>, << <<"*">>, OnlyModel >>,
                         << <<"a","*","b">>, OnlyTemp >> >>)),
      ConfigFile("bogus", None, None, None, None, Some(ApiOne),
                 Some(<< << <<"*","*">>, OnlyModel >> >>)) }

loadVars ==
    << fs, configCache, directoryConfigCache, scannerCache, lastOp, chunker, parser, sender >>

\* new ConfigLoader()
InitLoad ==
    /\ fs \in [Dirs -> {None} \cup { Some(f) : f \in LoaderFiles }]
    /\ configCache = EmptyCache
    /\ directoryConfigCache = EmptyCache
    /\ scannerCache = EmptyCache
    /\ lastOp = NoOp
    /\ chunker = IdleChunker
    /\ parser = IdleParser
    /\ sender = IdleSender

\* what a loadConfig call leaves behind; rule is the pattern its error
\* message quotes, if it quotes one
ConfigLoaded(d, r) ==
    /\ configCache' = r.cc
    /\ directoryConfigCache' = r.dc
    /\ lastOp' = [op |-> "load", dir |-> d, kind |-> r.kind, err |-> r.err,
                  rule |-> IF r.err \in {ErrInvalidPattern, ErrDuplicatePattern}
                           THEN ThrownPattern(
                                    Get(JsonParse(Get(fs[d])).apiConfigRuleOverrides))
                           ELSE << >>,
                  api |-> None, cfg |-> r.val, best |-> None, configs |-> << >>]

\* loadConfig(d/ailintconfig.json)
LoadConfigCall(d) ==
    /\ ~Hung
    /\ ConfigLoaded(d, LoadConfig(d, configCache, directoryConfigCache))
    /\ UNCHANGED << fs, scannerCache, chunker, parser, sender >>

\* ConfigLoader.clearCache
ClearLoaderCache ==
    /\ ~Hung
    /\ configCache' = EmptyCache
    /\ directoryConfigCache' = EmptyCache
    /\ lastOp' = [NoOp EXCEPT !.op = "clear"]
    /\ UNCHANGED << fs, scannerCache, chunker, parser, sender >>

NextLoad ==
    \/ \E d \in Dirs : LoadConfigCall(d)
    \/ ClearLoaderCache

SpecLoad == InitLoad /\ [][NextLoad]_loadVars

-----------------------------------------------------------------------------
(* What loadConfig is to return, stated on the files of the tree.           *)

\* the file of directory x as an object, baseConfig omitted read as inherit
FileAt(x) == JsonParse(Get(fs[x]))

Inherits(x) == IsSome(fs[x]) /\ Get(fs[x]).baseConfig = Undef

HasAncestorFile(x) == \E y \in 0..(x - 1) : IsSome(fs[y])

\* the nearest ancestor directory of x that holds an ailintconfig.json
NearestAncestor(x) ==
    CHOOSE y \in 0..(x - 1) : IsSome(fs[y]) /\ \A z \in (y + 1)..(x - 1) : ~IsSome(fs[z])

\* a key that is an exact name, or a prefix of one character or more
\* followed by the only asterisk
AcceptableKey(pat) ==
    \A k \in 1..Len(pat) : pat[k] = "*" => (k = Len(pat) /\ Len(pat) > 1)

KeysOf(x) ==
    IF IsSome(Get(fs[x]).apiConfigRuleOverrides)
    THEN { Get(Get(fs[x]).apiConfigRuleOverrides)[i][1] :
             i \in 1..Len(Get(Get(fs[x]).apiConfigRuleOverrides)) }
    ELSE {}

\* the file of x and the files it inherits from, up to a self-contained one
\* or one on the built-in baseline, are all valid
RECURSIVE WellFormed(_)
WellFormed(x) ==
    /\ IsSome(fs[x])
    /\ Get(fs[x]).baseConfig \in {"empty", "default", "parent", Undef}
    /\ \A pat \in KeysOf(x) : AcceptableKey(pat)
    /\ Get(fs[x]).baseConfig \in {"parent", Undef}
       => HasAncestorFile(x) /\ WellFormed(NearestAncestor(x))

Entries(list) == IF list = None THEN << >> ELSE list[1]

LocalElse(local, baseline) == IF local # None THEN local ELSE baseline

\* the six settings of a configuration
Settings(c) ==
    << c.includeExtensions, c.includeMimeTypes, c.ignore, c.useGitIgnore, c.apiConfig,
       c.apiConfigRuleOverrides >>

\* each list the baseline's followed by the local one; useGitIgnore,
\* apiConfig and apiConfigRuleOverrides the local value if present, else
\* the baseline's
Merged(local, baseline) ==
    << Some(Entries(baseline[1]) \o Entries(local[1])),
       Some(Entries(baseline[2]) \o Entries(local[2])),
       Some(Entries(baseline[3]) \o Entries(local[3])),
       LocalElse(local[4], baseline[4]),
       LocalElse(local[5], baseline[5]),
       LocalElse(local[6], baseline[6]) >>

NothingSet == << None, None, None, None, None, None >>

\* the settings of the file of x, resolved through the files it builds on
RECURSIVE FullyResolved(_)
FullyResolved(x) ==
    IF Get(fs[x]).baseConfig = "empty"
    THEN << Some(Entries(FileAt(x).includeExtensions)),
            Some(Entries(FileAt(x).includeMimeTypes)),
            Some(Entries(FileAt(x).ignore)),
            FileAt(x).useGitIgnore, FileAt(x).apiConfig,
            FileAt(x).apiConfigRuleOverrides >>
    ELSE IF Get(fs[x]).baseConfig = "default"
    THEN Merged(Settings(FileAt(x)), Settings(BaseConfigFile))
    ELSE Merged(Settings(FileAt(x)), FullyResolved(NearestAncestor(x)))

LoadReturned == lastOp.op = "load" /\ lastOp.kind # "hang"

\* C13 as claimed: loadConfig of a valid inheriting file returns the file's
\* settings merged onto the fully resolved configuration of the nearest
\* ancestor directory that holds an ailintconfig.json.
C13_InheritsNearestAncestor ==
    (lastOp.op = "load" /\ Inherits(lastOp.dir) /\ WellFormed(lastOp.dir))
    => /\ lastOp.kind = "ok"
       /\ Settings(Get(lastOp.cfg)) = FullyResolved(lastOp.dir)

\* C14 as claimed: loadConfig of an inheriting file with no ailintconfig.json
\* in any ancestor directory fails with the no-parent error.
C14_NoAncestorIsAnError ==
    ( /\ lastOp.op = "load"
      /\ Inherits(lastOp.dir)
      /\ \A pat \in KeysOf(lastOp.dir) : AcceptableKey(pat)
      /\ ~HasAncestorFile(lastOp.dir) )
    => lastOp.kind = "throw" /\ lastOp.err = ErrNoParent

\* C15: loadConfig of a file with baseConfig "default" returns each list as
\* the built-in baseline's list followed by the file's, and useGitIgnore,
\* apiConfig and apiConfigRuleOverrides as the file's value if it has one,
\* else the baseline's; it returns whenever the file's keys are valid.
C15_DefaultMerge ==
    ( lastOp.op = "load" /\ IsSome(fs[lastOp.dir])
      /\ Get(fs[lastOp.dir]).baseConfig = "default" )
    => /\ lastOp.kind = "ok"
          => Settings(Get(lastOp.cfg))
                = Merged(Settings(FileAt(lastOp.dir)), Settings(BaseConfigFile))
       /\ (\A pat \in KeysOf(lastOp.dir) : AcceptableKey(pat)) => lastOp.kind = "ok"

\* a file on the baseline that adds to two lists, turns useGitIgnore off
\* and sets no apiConfig
C15_Witness ==
    /\ lastOp.op = "load" /\ lastOp.kind = "ok"
    /\ IsSome(fs[lastOp.dir])
    /\ Get(fs[lastOp.dir]).baseConfig = "default"
    /\ Get(lastOp.cfg).includeExtensions = Some(<< ".ts", ".js", ".d" >>)
    /\ Get(lastOp.cfg).ignore = Some(<< "node_modules", "dist" >>)
    /\ Get(lastOp.cfg).useGitIgnore = Some(FALSE)
    /\ Get(lastOp.cfg).apiConfig = Some(BuiltinApi)

\* C16: loadConfig of a file with baseConfig "empty" returns the file's own
\* useGitIgnore, apiConfig and apiConfigRuleOverrides and its own lists,
\* the empty list for a list it leaves unset, whatever the other
\* directories hold; the call leaves the cache of parent configurations as
\* it was and caches nothing but the file's own configuration.
C16_EmptyIsVerbatim ==
    /\ [] ( ( lastOp.op = "load" /\ IsSome(fs[lastOp.dir])
              /\ Get(fs[lastOp.dir]).baseConfig = "empty" )
            => /\ lastOp.kind = "ok"
               /\ Get(lastOp.cfg).baseConfig = "empty"
               /\ Settings(Get(lastOp.cfg))
                     = << Some(Entries(FileAt(lastOp.dir).includeExtensions)),
                          Some(Entries(FileAt(lastOp.dir).includeMimeTypes)),
                          Some(Entries(FileAt(lastOp.dir).ignore)),
                          FileAt(lastOp.dir).useGitIgnore,
                          FileAt(lastOp.dir).apiConfig,
                          FileAt(lastOp.dir).apiConfigRuleOverrides >> )
    /\ [][ ( lastOp'.op = "load" /\ IsSome(fs[lastOp'.dir])
             /\ Get(fs[lastOp'.dir]).baseConfig = "empty" )
           => /\ directoryConfigCache' = directoryConfigCache
              /\ \A x \in Dirs \ { lastOp'.dir } : configCache'[x] = configCache[x] ]_loadVars

\* a self-contained file below a directory with a config of its own: one
\* list as written, the two it leaves unset empty
C16_Witness ==
    /\ lastOp.op = "load" /\ lastOp.kind = "ok"
    /\ lastOp.dir > 0
    /\ IsSome(fs[lastOp.dir])
    /\ Get(fs[lastOp.dir]).baseConfig = "empty"
    /\ IsSome(fs[lastOp.dir - 1])
    /\ Get(fs[lastOp.dir - 1]).baseConfig = "default"
    /\ Get(lastOp.cfg).includeExtensions = Some(<< ".e" >>)
    /\ Get(lastOp.cfg).includeMimeTypes = Some(<< >>)
    /\ Get(lastOp.cfg).ignore = Some(<< >>)

\* C17 as claimed: loadConfig of a file with a key that is not acceptable
\* fails with the invalid-pattern error quoting such a key, and caches
\* nothing for the file.
C17_BadKeyNamed ==
    ( lastOp.op = "load" /\ IsSome(fs[lastOp.dir])
      /\ \E pat \in KeysOf(lastOp.dir) : ~AcceptableKey(pat) )
    => /\ lastOp.kind = "throw"
       /\ lastOp.err = ErrInvalidPattern
       /\ lastOp.rule \in KeysOf(lastOp.dir)
       /\ ~AcceptableKey(lastOp.rule)
       /\ configCache[lastOp.dir] = None

\* the keys of the file of x that are not acceptable, by place of first
\* writing
BadKeyPlaces(x) ==
    { i \in 1..Len(Get(FileAt(x).apiConfigRuleOverrides)) :
        ~AcceptableKey(Get(FileAt(x).apiConfigRuleOverrides)[i][1]) }

\* C17: loadConfig throws the invalid-pattern error only for a file with a
\* key that is not acceptable (an exact name, or a prefix of one character
\* or more followed by the only asterisk, is acceptable). For a file with
\* such a key loadConfig fails and caches nothing for that file; the error
\* is the invalid-baseConfig error when the file's baseConfig is not valid
\* either, and otherwise the invalid-pattern error quoting the first such
\* key of the file.
C17_BadKeyRejected ==
    ( lastOp.op = "load" /\ IsSome(fs[lastOp.dir]) ) =>
        IF \E pat \in KeysOf(lastOp.dir) : ~AcceptableKey(pat)
        THEN /\ lastOp.kind = "throw"
             /\ configCache[lastOp.dir] = None
             /\ IF Get(fs[lastOp.dir]).baseConfig \in {"empty", "default", "parent", Undef}
                THEN /\ lastOp.err = ErrInvalidPattern
                     /\ \E i \in BadKeyPlaces(lastOp.dir) :
                           /\ \A j \in BadKeyPlaces(lastOp.dir) : i <= j
                           /\ lastOp.rule
                                 = Get(FileAt(lastOp.dir).apiConfigRuleOverrides)[i][1]
                ELSE lastOp.err = ErrInvalidBaseConfig
        ELSE lastOp.err # ErrInvalidPattern

\* a file whose second key is a lone asterisk and whose third has an
\* asterisk inside: rejected for the second, nothing cached
C17_Witness ==
    /\ lastOp.op = "load" /\ lastOp.kind = "throw"
    /\ lastOp.err = ErrInvalidPattern
    /\ lastOp.rule = << "*" >>
    /\ << "a", "*", "b" >> \in KeysOf(lastOp.dir)
    /\ configCache[lastOp.dir] = None

\* the keys the file of x writes more than once
WrittenTwice(x) ==
    IF IsSome(Get(fs[x]).apiConfigRuleOverrides)
    THEN { Get(Get(fs[x]).apiConfigRuleOverrides)[i][1] :
             i \in { n \in 1..Len(Get(Get(fs[x]).apiConfigRuleOverrides)) :
                       \E j \in 1..(n - 1) :
                          Get(Get(fs[x]).apiConfigRuleOverrides)[j][1]
                             = Get(Get(fs[x]).apiConfigRuleOverrides)[n][1] } }
    ELSE {}

\* C18 as claimed: loadConfig of a file whose apiConfigRuleOverrides writes a
\* key twice fails with the duplicate-pattern error.
C18_DuplicateKeyRejected ==
    ( lastOp.op = "load" /\ IsSome(fs[lastOp.dir]) /\ WrittenTwice(lastOp.dir) # {} )
    => lastOp.kind = "throw" /\ lastOp.err = ErrDuplicatePattern

\* the configurations the loader holds: those of configCache, and those of
\* the entries of directoryConfigCache that are not null
Held ==
    { Get(configCache[d]) : d \in { x \in Dirs : IsSome(configCache[x]) } }
    \cup { Get(Get(directoryConfigCache[d])) :
             d \in { x \in Dirs : /\ IsSome(directoryConfigCache[x])
                                  /\ IsSome(Get(directoryConfigCache[x])) } }

\* C35: every configuration loadConfig returns or caches is fully resolved:
\* its baseConfig is "empty" or "default", never the inherit value, whatever
\* chain of inheriting files it was built from.
C35_NeverInheritValue ==
    /\ \A c \in Held : c.baseConfig \in {"empty", "default"}
    /\ (lastOp.op = "load" /\ lastOp.kind = "ok")
       => Get(lastOp.cfg).baseConfig \in {"empty", "default"}

\* loadConfig has returned the configuration of the innermost directory,
\* whose file inherits from a file that inherits from the root's file on the
\* built-in baseline; the loader holds it, and the configuration found for
\* the directory between
C35_Witness ==
    /\ lastOp.op = "load"
    /\ lastOp.kind = "ok"
    /\ lastOp.dir = 2
    /\ Inherits(2)
    /\ Inherits(1)
    /\ IsSome(fs[0])
    /\ Get(fs[0]).baseConfig = "default"
    /\ Get(lastOp.cfg).baseConfig = "default"
    /\ configCache[2] = lastOp.cfg
    /\ IsSome(directoryConfigCache[1])
    /\ IsSome(Get(directoryConfigCache[1]))

\* loadConfig of directory d on a loader whose caches are empty
FreshLoad(d) == LoadConfig(d, EmptyCache, EmptyCache)

\* C36 as claimed: the caches are transparent: whatever the loader loaded
\* before, loadConfig returns, or fails with, what loadConfig of the same
\* path gives on a freshly cleared loader over the same files.
C36_CachesTransparent ==
    LoadReturned =>
        /\ lastOp.kind = FreshLoad(lastOp.dir).kind
        /\ lastOp.err = FreshLoad(lastOp.dir).err
        /\ lastOp.cfg = FreshLoad(lastOp.dir).val

-----------------------------------------------------------------------------
(* SendRulesToAI: rules, their XML form, chunkRules                        *)

\* an AISpecBlock: the directory of its filePath, and the length of its
\* <Block> element as the XML builder prints it
Block(dir, len) == [filePath |-> dir, xmlLen |-> len]

Rule(name, blocks) == [name |-> name, blocks |-> blocks]

\* '<?xml version="1.0" encoding="UTF-8"?>\n'
XmlPrologLen == 39

\* '<AISpecRules>\n' and '</AISpecRules>\n'
RootTagLen == 29

\* '  <Rule name="">\n' and '  </Rule>\n'
RuleTagLen == 27

RECURSIVE BlocksXmlLen(_)
BlocksXmlLen(blocks) ==
    IF blocks = << >> THEN 0 ELSE Head(blocks).xmlLen + BlocksXmlLen(Tail(blocks))

\* the <Rule> element of one rule
RuleXmlLen(rule) == RuleTagLen + Len(rule.name) + BlocksXmlLen(rule.blocks)

RECURSIVE RulesXmlLen(_)
RulesXmlLen(rules) ==
    IF rules = << >> THEN 0 ELSE RuleXmlLen(Head(rules)) + RulesXmlLen(Tail(rules))

\* formatRulesToXML(rules).length
FormatRulesToXMLLength(rules) == XmlPrologLen + RootTagLen + RulesXmlLen(rules)

DefaultMaxChunkSize == 150000

\* config.maxChunkSize || 150000
MaxChunkSizeOf(configured) == IF configured = 0 THEN DefaultMaxChunkSize ELSE configured

\* a rule's size without the document around it
RuleSizeBare(rule) == RuleXmlLen(rule)

\* a rule's size without the XML declaration
RuleSizeNoProlog(rule) == RootTagLen + RuleXmlLen(rule)

\* const ruleSize = this.formatRulesToXML([rule]).length
RuleSize(rule) == FormatRulesToXMLLength(<< rule >>)

\* closing a chunk as soon as the ceiling is reached
ShouldCloseAtCeiling(currentSize, ruleSize, currentChunk, maxChunkSize) ==
    currentSize + ruleSize >= maxChunkSize /\ Len(currentChunk) > 0

\* currentSize + ruleSize > this.maxChunkSize && currentChunk.length > 0
ShouldClose(currentSize, ruleSize, currentChunk, maxChunkSize) ==
    currentSize + ruleSize > maxChunkSize /\ Len(currentChunk) > 0

\* one pass of the for loop of chunkRules over rule
ChunkStep(st, rule, maxChunkSize) ==
    IF ShouldClose(st.currentSize, RuleSize(rule), st.currentChunk, maxChunkSize)
    THEN [chunks |-> Append(st.chunks, st.currentChunk),
          currentChunk |-> << rule >>,
          currentSize |-> RuleSize(rule)]
    ELSE [chunks |-> st.chunks,
          currentChunk |-> Append(st.currentChunk, rule),
          currentSize |-> st.currentSize + RuleSize(rule)]

\* the chunk being built when the loop ends is not pushed
ChunkFlushNothing(st) == st.chunks

\* if (currentChunk.length > 0) chunks.push(currentChunk); return chunks
ChunkFlush(st) ==
    IF Len(st.currentChunk) > 0 THEN Append(st.chunks, st.currentChunk) ELSE st.chunks

ChunkStart == [chunks |-> << >>, currentChunk |-> << >>, currentSize |-> 0]

RECURSIVE ChunkLoop(_, _, _)
ChunkLoop(st, rules, maxChunkSize) ==
    IF rules = << >> THEN st
    ELSE ChunkLoop(ChunkStep(st, Head(rules), maxChunkSize), Tail(rules), maxChunkSize)

ChunkRules(rules, maxChunkSize) == ChunkFlush(ChunkLoop(ChunkStart, rules, maxChunkSize))

-----------------------------------------------------------------------------
(* chunkRules, loop by loop, on any list of rules under any ceiling.        *)

MaxRules == 4

\* three rules of three sizes
SmallRule == Rule(<<"a","b">>, << Block(1, 30) >>)
MediumRule == Rule(<<"a","b","a">>, << Block(1, 61) >>)
LargeRule == Rule(<<"b">>, << Block(1, 100), Block(2, 100) >>)

ChunkInputs == { SmallRule, MediumRule, LargeRule }

\* configured maxChunkSize values: unset, below every rule, two small rules
\* exactly, a small and a medium rule exactly
ChunkSizes ==
    { 0, 100, RuleSize(SmallRule) + RuleSize(SmallRule),
      RuleSize(SmallRule) + RuleSize(MediumRule) }

chunkVars ==
    << fs, configCache, directoryConfigCache, scannerCache, lastOp, chunker, parser, sender >>

ResolverIdle ==
    /\ fs = [d \in Dirs |-> None]
    /\ configCache = EmptyCache
    /\ directoryConfigCache = EmptyCache
    /\ scannerCache = EmptyCache
    /\ lastOp = NoOp

InitChunk ==
    /\ ResolverIdle
    /\ parser = IdleParser
    /\ sender = IdleSender
    /\ \E n \in 0..MaxRules, size \in ChunkSizes :
         \E rules \in [1..n -> ChunkInputs] :
            chunker = [pc |-> "loop", maxChunkSize |-> MaxChunkSizeOf(size),
                       rules |-> rules, i |-> 1,
                       chunks |-> << >>, currentChunk |-> << >>, currentSize |-> 0]

\* one iteration of for (const rule of rules)
ChunkRule ==
    /\ chunker.pc = "loop"
    /\ chunker.i <= Len(chunker.rules)
    /\ chunker' =
         [chunker EXCEPT
            !.i = @ + 1,
            !.chunks = ChunkStep(chunker, chunker.rules[chunker.i],
                                 chunker.maxChunkSize).chunks,
            !.currentChunk = ChunkStep(chunker, chunker.rules[chunker.i],
                                       chunker.maxChunkSize).currentChunk,
            !.currentSize = ChunkStep(chunker, chunker.rules[chunker.i],
                                      chunker.maxChunkSize).currentSize]
    /\ UNCHANGED << fs, configCache, directoryConfigCache, scannerCache, lastOp, parser, sender >>

\* the loop is over: push the last chunk and return
ChunkReturn ==
    /\ chunker.pc = "loop"
    /\ chunker.i > Len(chunker.rules)
    /\ chunker' = [chunker EXCEPT !.pc = "done", !.chunks = ChunkFlush(chunker)]
    /\ UNCHANGED << fs, configCache, directoryConfigCache, scannerCache, lastOp, parser, sender >>

NextChunk == ChunkRule \/ ChunkReturn

SpecChunk == InitChunk /\ [][NextChunk]_chunkVars

-----------------------------------------------------------------------------
(* What chunkRules is to produce, stated on its input and output.           *)

RECURSIVE SumOfSizes(_)
SumOfSizes(rules) ==
    IF rules = << >> THEN 0
    ELSE FormatRulesToXMLLength(<< Head(rules) >>) + SumOfSizes(Tail(rules))

RECURSIVE Flatten(_)
Flatten(chunks) == IF chunks = << >> THEN << >> ELSE Head(chunks) \o Flatten(Tail(chunks))

\* the chunk that holds input rule k, once every rule is placed
ChunkOf(k) ==
    CHOOSE c \in 1..Len(chunker.chunks) :
        /\ Len(Flatten(SubSeq(chunker.chunks, 1, c - 1))) < k
        /\ k <= Len(Flatten(SubSeq(chunker.chunks, 1, c)))

OwnSize(k) == FormatRulesToXMLLength(<< chunker.rules[k] >>)

\* C8: a pass of the loop closes the current batch exactly when the batch is
\* non-empty and the sizes of its rules plus the next rule's size exceed
\* maxChunkSize; in the result the rules are all there in their order, two
\* neighbours each below the ceiling whose sizes sum above it are in
\* different batches, and a rule above the ceiling is alone in its batch.
C8_ClosesWhenOver ==
    /\ [][ (chunker.pc = "loop" /\ chunker'.pc = "loop") =>
             ( (Len(chunker'.chunks) = Len(chunker.chunks) + 1)
               <=> ( /\ chunker.currentChunk # << >>
                     /\ SumOfSizes(chunker.currentChunk) + OwnSize(chunker.i)
                            > chunker.maxChunkSize ) ) ]_chunkVars
    /\ [] ( chunker.pc = "done" =>
             /\ Flatten(chunker.chunks) = chunker.rules
             /\ \A c \in 1..Len(chunker.chunks) : chunker.chunks[c] # << >>
             /\ \A k \in 1..(Len(chunker.rules) - 1) :
                   ( /\ OwnSize(k) < chunker.maxChunkSize
                     /\ OwnSize(k + 1) < chunker.maxChunkSize
                     /\ OwnSize(k) + OwnSize(k + 1) > chunker.maxChunkSize )
                   => ChunkOf(k) < ChunkOf(k + 1)
             /\ \A k \in 1..Len(chunker.rules) :
                   OwnSize(k) > chunker.maxChunkSize
                   => chunker.chunks[ChunkOf(k)] = << chunker.rules[k] >> )

\* a run that kept two rules together, split two neighbours that fit alone
\* but not together, and gave a rule above the ceiling a batch of its own
C8_Witness ==
    /\ chunker.pc = "done"
    /\ \E c \in 1..Len(chunker.chunks) : Len(chunker.chunks[c]) > 1
    /\ \E k \in 1..(Len(chunker.rules) - 1) :
          /\ OwnSize(k) < chunker.maxChunkSize
          /\ OwnSize(k + 1) < chunker.maxChunkSize
          /\ OwnSize(k) + OwnSize(k + 1) > chunker.maxChunkSize
    /\ \E k \in 1..Len(chunker.rules) : OwnSize(k) > chunker.maxChunkSize

\* C9: a batch of more than one rule, serialized as one document, is no
\* longer than maxChunkSize.
C9_MultiRuleBatchFits ==
    chunker.pc \in {"loop", "done"} =>
        \A c \in 1..Len(chunker.chunks) :
            Len(chunker.chunks[c]) > 1
            => FormatRulesToXMLLength(chunker.chunks[c]) <= chunker.maxChunkSize

\* a batch of several rules under a configured ceiling, next to a single
\* rule above it
C9_Witness ==
    /\ chunker.pc = "done"
    /\ chunker.maxChunkSize < DefaultMaxChunkSize
    /\ \E c \in 1..Len(chunker.chunks) : Len(chunker.chunks[c]) > 1
    /\ \E c \in 1..Len(chunker.chunks) :
          /\ Len(chunker.chunks[c]) = 1
          /\ FormatRulesToXMLLength(chunker.chunks[c]) > chunker.maxChunkSize

\* what the documents of the rules of a batch, each serialized alone, hold
\* more than the one document of the batch: the XML declaration and the root
\* element of every rule but one
Overcount(rules) == (Len(rules) - 1) * (XmlPrologLen + RootTagLen)

\* C31 as stated: the size the batcher attributes to the batch it is
\* building, the sum of the sizes of its rules each serialized alone, is the
\* length of the serialization of the batch's rules together.
C31_AttributedSizeIsExact ==
    (chunker.pc = "loop" /\ chunker.currentChunk # << >>)
    => chunker.currentSize = FormatRulesToXMLLength(chunker.currentChunk)

\* C31: the size the batcher attributes to the batch it is building is the
\* sum of the sizes of its rules each serialized alone; that is the length
\* of the serialization of the batch together plus, for every rule after the
\* first, the length of the XML declaration and the root element: exact for
\* a batch of one rule, above the true length for a larger one, and never
\* below it.
C31_AttributedSizeOvercounts ==
    (chunker.pc = "loop" /\ chunker.currentChunk # << >>)
    => /\ chunker.currentSize = SumOfSizes(chunker.currentChunk)
       /\ chunker.currentSize
             = FormatRulesToXMLLength(chunker.currentChunk)
                  + Overcount(chunker.currentChunk)
       /\ chunker.currentSize >= FormatRulesToXMLLength(chunker.currentChunk)

\* the batcher holds a batch of two rules, and has closed a batch of two
\* whose attributed size was at the ceiling while its text is shorter
C31_Witness ==
    /\ chunker.pc = "loop"
    /\ Len(chunker.currentChunk) = 2
    /\ \E c \in 1..Len(chunker.chunks) :
          /\ Len(chunker.chunks[c]) = 2
          /\ SumOfSizes(chunker.chunks[c]) = chunker.maxChunkSize
          /\ FormatRulesToXMLLength(chunker.chunks[c]) < chunker.maxChunkSize

-----------------------------------------------------------------------------
(* AISpecBlockParser.parseFile                                             *)

\* String.prototype.trim strips these
IsSpace(ch) == ch \in {" ", "\t", "\n"}

RECURSIVE TrimStart(_)
TrimStart(str) ==
    IF str # << >> /\ IsSpace(Head(str)) THEN TrimStart(Tail(str)) ELSE str

RECURSIVE TrimEnd(_)
TrimEnd(str) ==
    IF str # << >> /\ IsSpace(str[Len(str)])
    THEN TrimEnd(SubSeq(str, 1, Len(str) - 1)) ELSE str

Trim(str) == TrimEnd(TrimStart(str))

\* str.split(',')
RECURSIVE Split(_)
Split(str) ==
    IF \A i \in 1..Len(str) : str[i] # ","
    THEN << str >>
    ELSE << SubSeq(str, 1, (CHOOSE i \in 1..Len(str) :
                               str[i] = "," /\ \A j \in 1..(i-1) : str[j] # ",") - 1) >>
         \o Split(SubSeq(str, (CHOOSE i \in 1..Len(str) :
                                  str[i] = "," /\ \A j \in 1..(i-1) : str[j] # ",") + 1,
                         Len(str)))

\* ruleNamesStr.split(',').map(name => name.trim())
ParseNames(ruleNamesStr) ==
    [i \in 1..Len(Split(ruleNamesStr)) |-> Trim(Split(ruleNamesStr)[i])]

\* name lists taken for equal when they hold the same names
NamesEqualAsSets(currentRuleNames, endRuleNames) ==
    { currentRuleNames[i] : i \in 1..Len(currentRuleNames) }
        = { endRuleNames[i] : i \in 1..Len(endRuleNames) }

\* currentRuleNames.length === endRuleNames.length &&
\* currentRuleNames.every((name, index) => name === endRuleNames[index])
NamesEqual(currentRuleNames, endRuleNames) ==
    /\ Len(currentRuleNames) = Len(endRuleNames)
    /\ \A i \in 1..Len(currentRuleNames) : currentRuleNames[i] = endRuleNames[i]

\* "Initialize rules if they don't exist", in Map insertion order
RECURSIVE SetRules(_, _)
SetRules(rules, names) ==
    IF names = << >> THEN rules
    ELSE SetRules(IF \E k \in 1..Len(rules) : rules[k].name = Head(names)
                  THEN rules
                  ELSE Append(rules, [name |-> Head(names), blocks |-> << >>]),
                  Tail(names))

\* the block added to the first rule of the list only
PushBlockFirstOnly(rules, names, block) ==
    IF names = << >> THEN rules
    ELSE [k \in 1..Len(rules) |->
             IF rules[k].name = Head(names)
             THEN [rules[k] EXCEPT !.blocks = Append(@, block)]
             ELSE rules[k]]

\* "Add the block to all rules"
RECURSIVE PushBlock(_, _, _)
PushBlock(rules, names, block) ==
    IF names = << >> THEN rules
    ELSE PushBlock([k \in 1..Len(rules) |->
                      IF rules[k].name = Head(names)
                      THEN [rules[k] EXCEPT !.blocks = Append(@, block)]
                      ELSE rules[k]],
                   Tail(names), block)

\* the lines of a file, as the two regular expressions see them: a begin
\* marker with its name list and specification, an end marker with its name
\* list, any other text, or the empty string
BeginLine(names, spec) == [kind |-> "begin", names |-> names, text |-> spec]
EndLine(names) == [kind |-> "end", names |-> names, text |-> << >>]
TextLine(text) == [kind |-> "text", names |-> << >>, text |-> text]
EmptyLine == [kind |-> "empty", names |-> << >>, text |-> << >>]

\* the locals of parseFile before its loop; i counts lines from 1, so that
\* p.i is the source's i + 1
ParseEntry(filePath, lines) ==
    [pc |-> "loop", filePath |-> filePath, lines |-> lines, i |-> 1,
     rules |-> << >>, currentRuleNames |-> None, currentBlock |-> None,
     result |-> << >>]

\* a begin marker that records the index of its line, counted from 0
OnBeginZeroBased(p, line) ==
    [p EXCEPT
        !.i = @ + 1,
        !.currentRuleNames = Some(ParseNames(line.names)),
        !.rules = SetRules(@, ParseNames(line.names)),
        !.currentBlock = Some([specification |-> Trim(line.text), source |-> << >>,
                               filePath |-> p.filePath,
                               startLine |-> p.i - 1, endLine |-> 0])]

\* a begin marker met while a begin is open is passed over
OnBeginKeepingOpen(p, line) ==
    IF IsSome(p.currentBlock) THEN [p EXCEPT !.i = @ + 1]
    ELSE [p EXCEPT
            !.i = @ + 1,
            !.currentRuleNames = Some(ParseNames(line.names)),
            !.rules = SetRules(@, ParseNames(line.names)),
            !.currentBlock = Some([specification |-> Trim(line.text), source |-> << >>,
                                   filePath |-> p.filePath,
                                   startLine |-> p.i, endLine |-> 0])]

\* if (beginMatch) { ... continue; }
OnBegin(p, line) ==
    [p EXCEPT
        !.i = @ + 1,
        !.currentRuleNames = Some(ParseNames(line.names)),
        !.rules = SetRules(@, ParseNames(line.names)),
        !.currentBlock = Some([specification |-> Trim(line.text), source |-> << >>,
                               filePath |-> p.filePath,
                               startLine |-> p.i, endLine |-> 0])]

\* an end marker whose names differ from the open begin's is passed over
OnEndKeepingOpen(p, line) ==
    IF /\ IsSome(p.currentRuleNames)
       /\ IsSome(p.currentBlock)
       /\ ~NamesEqual(Get(p.currentRuleNames), ParseNames(line.names))
    THEN [p EXCEPT !.i = @ + 1]
    ELSE [p EXCEPT
            !.i = @ + 1,
            !.rules =
                IF IsSome(p.currentRuleNames) /\ IsSome(p.currentBlock)
                THEN PushBlock(@, Get(p.currentRuleNames),
                               [Get(p.currentBlock) EXCEPT
                                   !.endLine = p.i, !.source = Trim(@)])
                ELSE @,
            !.currentRuleNames = None,
            !.currentBlock = None]

\* if (endMatch) { ... continue; }
OnEnd(p, line) ==
    [p EXCEPT
        !.i = @ + 1,
        !.rules =
            IF /\ IsSome(p.currentRuleNames)
               /\ IsSome(p.currentBlock)
               /\ NamesEqual(Get(p.currentRuleNames), ParseNames(line.names))
            THEN PushBlock(@, Get(p.currentRuleNames),
                           [Get(p.currentBlock) EXCEPT
                               !.endLine = p.i, !.source = Trim(@)])
            ELSE @,
        !.currentRuleNames = None,
        !.currentBlock = None]

\* currentBlock.source += line + '\n'
OnText(p, line) ==
    [p EXCEPT
        !.i = @ + 1,
        !.currentBlock =
            IF IsSome(p.currentBlock) /\ IsSome(p.currentRuleNames)
            THEN Some([Get(p.currentBlock) EXCEPT !.source = @ \o line.text \o << "\n" >>])
            ELSE @]

\* the body of the for loop over lines[i]
ParseStep(p, line) ==
    IF line.kind = "empty" THEN [p EXCEPT !.i = @ + 1]
    ELSE IF line.kind = "begin" THEN OnBegin(p, line)
    ELSE IF line.kind = "end" THEN OnEnd(p, line)
    ELSE OnText(p, line)

\* every rule of the map, with or without blocks
WithBlocksUnfiltered(rules) == rules

\* Array.from(rules.values()).filter(rule => rule.blocks.length > 0)
WithBlocks(rules) == SelectSeq(rules, LAMBDA rule : Len(rule.blocks) > 0)

-----------------------------------------------------------------------------
(* parseFile, line by line, on any file of a few lines.                     *)

MaxLines == 4

\* the path parseFile is called with
SourcePath == "a.ts"

FileLines ==
    { BeginLine(<<"a", ",", "b">>, <<"s">>),
      BeginLine(<<" ", "a", " ", ",", "b">>, <<"s", " ">>),
      BeginLine(<<"a">>, <<"t">>),
      EndLine(<<"a", ",", "b">>),
      EndLine(<<"a", ",", " ", "b", " ">>),
      EndLine(<<"b", ",", "a">>),
      EndLine(<<"a", ",", "c">>),
      EndLine(<<"a">>),
      TextLine(<<"x">>),
      EmptyLine }

parseVars ==
    << fs, configCache, directoryConfigCache, scannerCache, lastOp, chunker, parser, sender >>

InitParse ==
    /\ ResolverIdle
    /\ chunker = IdleChunker
    /\ sender = IdleSender
    /\ \E n \in 0..MaxLines :
         \E lines \in [1..n -> FileLines] :
            parser = ParseEntry(SourcePath, lines)

\* one iteration of for (let i = 0; i < lines.length; i++)
ParseLine ==
    /\ parser.pc = "loop"
    /\ parser.i <= Len(parser.lines)
    /\ parser' = ParseStep(parser, parser.lines[parser.i])
    /\ UNCHANGED << fs, configCache, directoryConfigCache, scannerCache, lastOp,
                    chunker, sender >>

\* the loop is over: return the rules that have blocks
ParseReturn ==
    /\ parser.pc = "loop"
    /\ parser.i > Len(parser.lines)
    /\ parser' = [parser EXCEPT !.pc = "done", !.result = WithBlocks(parser.rules)]
    /\ UNCHANGED << fs, configCache, directoryConfigCache, scannerCache, lastOp,
                    chunker, sender >>

NextParse == ParseLine \/ ParseReturn

SpecParse == InitParse /\ [][NextParse]_parseVars

-----------------------------------------------------------------------------
(* Marker pairs of the input, and the name lists they carry.                *)

CommasOf(str) == { i \in 1..Len(str) : str[i] = "," }

\* the position of the n-th comma; 0 before the first piece, Len + 1 after
\* the last
CommaAt(str, n) ==
    IF n = 0 THEN 0
    ELSE IF n > Cardinality(CommasOf(str)) THEN Len(str) + 1
    ELSE CHOOSE i \in CommasOf(str) : Cardinality({ j \in CommasOf(str) : j < i }) = n - 1

Piece(str, n) == SubSeq(str, CommaAt(str, n - 1) + 1, CommaAt(str, n) - 1)

\* a piece without the whitespace around it
Inner(piece) ==
    LET solid == { i \in 1..Len(piece) : piece[i] \notin {" ", "\t", "\n"} }
    IN  IF solid = {} THEN << >>
        ELSE SubSeq(piece, CHOOSE i \in solid : \A j \in solid : i <= j,
                           CHOOSE i \in solid : \A j \in solid : j <= i)

SameNameList(b, e) ==
    /\ Cardinality(CommasOf(b)) = Cardinality(CommasOf(e))
    /\ \A n \in 1..(Cardinality(CommasOf(b)) + 1) :
          Inner(Piece(b, n)) = Inner(Piece(e, n))

IsMarker(k) == parser.lines[k].kind \in {"begin", "end"}

\* line k is a begin marker, line j the next marker after it, an end marker
DirectPair(k, j) ==
    /\ k < j
    /\ parser.lines[k].kind = "begin"
    /\ parser.lines[j].kind = "end"
    /\ \A x \in (k+1)..(j-1) : ~IsMarker(x)

FragmentsAt(k, j) ==
    { << r, b >> \in (1..Len(parser.result)) \X (1..MaxLines) :
        /\ b <= Len(parser.result[r].blocks)
        /\ parser.result[r].blocks[b].startLine = k
        /\ parser.result[r].blocks[b].endLine = j }

NamesIn(str) == { Inner(Piece(str, n)) : n \in 1..(Cardinality(CommasOf(str)) + 1) }

\* C7: for a begin marker directly followed by an end marker, parseFile
\* returns a fragment spanning the two iff their trimmed name lists are
\* equal in length and position by position; if they differ the pair adds
\* no fragment to any rule named in either list, and parseFile still returns.
C7_FragmentIffNamesEqual ==
    parser.pc = "done" =>
        \A k, j \in 1..Len(parser.lines) :
            DirectPair(k, j) =>
                /\ SameNameList(parser.lines[k].names, parser.lines[j].names)
                   <=> FragmentsAt(k, j) # {}
                /\ SameNameList(parser.lines[k].names, parser.lines[j].names)
                   => \A name \in NamesIn(parser.lines[k].names) :
                         \E f \in FragmentsAt(k, j) : parser.result[f[1]].name = name
                /\ ~SameNameList(parser.lines[k].names, parser.lines[j].names)
                   => \A r \in 1..Len(parser.result) :
                         \A b \in 1..Len(parser.result[r].blocks) :
                            /\ parser.result[r].blocks[b].startLine # k
                            /\ parser.result[r].blocks[b].endLine # j

\* a file with a pair whose lists agree after trimming and a pair whose
\* lists hold the same names in another order
C7_Witness ==
    /\ parser.pc = "done"
    /\ \E k, j \in 1..Len(parser.lines) :
          /\ DirectPair(k, j)
          /\ parser.lines[k].names # parser.lines[j].names
          /\ FragmentsAt(k, j) # {}
    /\ \E k, j \in 1..Len(parser.lines) :
          /\ DirectPair(k, j)
          /\ NamesIn(parser.lines[k].names) = NamesIn(parser.lines[j].names)
          /\ FragmentsAt(k, j) = {}

-----------------------------------------------------------------------------
(* parseFile on files of one rule whose fragments have blank lines.         *)

MaxSourceLines == 5

\* a begin marker with spaces around its specification, its end marker, a
\* source line, a line of one space, and the empty string
SourceLines ==
    { BeginLine(<<"a">>, <<" ", "s", " ">>),
      EndLine(<<"a">>),
      TextLine(<<"x">>),
      TextLine(<<" ">>),
      EmptyLine }

InitParseSource ==
    /\ ResolverIdle
    /\ chunker = IdleChunker
    /\ sender = IdleSender
    /\ \E n \in 0..MaxSourceLines :
         \E lines \in [1..n -> SourceLines] :
            parser = ParseEntry(SourcePath, lines)

SpecParseSource == InitParseSource /\ [][NextParse]_parseVars

\* lines a..b of the file, each with its line end
RECURSIVE Joined(_, _)
Joined(a, b) ==
    IF a > b THEN << >>
    ELSE parser.lines[a].text \o << "\n" >> \o Joined(a + 1, b)

\* C20 as claimed: the source text of every fragment parseFile returns is
\* the lines strictly between its begin and end marker lines, blank lines
\* between source lines included, without the whitespace before the first
\* and after the last source line; its specification text is the quoted
\* string without the whitespace around it.
C20_SourceKeepsInnerBlankLines ==
    parser.pc = "done" =>
        \A r \in 1..Len(parser.result) :
            \A b \in 1..Len(parser.result[r].blocks) :
                /\ parser.result[r].blocks[b].source
                      = Inner(Joined(parser.result[r].blocks[b].startLine + 1,
                                     parser.result[r].blocks[b].endLine - 1))
                /\ parser.result[r].blocks[b].specification
                      = Inner(parser.lines[parser.result[r].blocks[b].startLine].text)

-----------------------------------------------------------------------------
(* Where the fragments of a file lie.                                       *)

\* the non-empty lines a..b of the file, each with its line end
RECURSIVE Kept(_, _)
Kept(a, b) ==
    IF a > b THEN << >>
    ELSE IF parser.lines[a].kind = "empty" THEN Kept(a + 1, b)
    ELSE parser.lines[a].text \o << "\n" >> \o Kept(a + 1, b)

\* the fragments of the returned rules, as << rule, position >> pairs
Fragments ==
    { << r, b >> \in (1..Len(parser.result)) \X (1..Len(parser.lines)) :
         b <= Len(parser.result[r].blocks) }

FragmentOf(f) == parser.result[f[1]].blocks[f[2]]

\* C21: for every fragment parseFile returns, startLine is the 1-based number
\* of its begin-marker line and endLine the 1-based number of its end-marker
\* line, so startLine < endLine, and the source is made of the lines strictly
\* between the two, none of which is a marker line.
C21_LinesOfMarkers ==
    parser.pc = "done" =>
        \A f \in Fragments :
            /\ FragmentOf(f).startLine \in 1..Len(parser.lines)
            /\ FragmentOf(f).endLine \in 1..Len(parser.lines)
            /\ parser.lines[FragmentOf(f).startLine].kind = "begin"
            /\ parser.lines[FragmentOf(f).endLine].kind = "end"
            /\ FragmentOf(f).startLine < FragmentOf(f).endLine
            /\ \A x \in (FragmentOf(f).startLine + 1)..(FragmentOf(f).endLine - 1) :
                  ~IsMarker(x)
            /\ FragmentOf(f).source
                  = Inner(Kept(FragmentOf(f).startLine + 1, FragmentOf(f).endLine - 1))

\* a fragment whose begin marker is the second line of the file and whose
\* end marker is the fourth, with one source line between them
C21_Witness ==
    /\ parser.pc = "done"
    /\ \E f \in Fragments :
          /\ FragmentOf(f).startLine = 2
          /\ FragmentOf(f).endLine = 4
          /\ FragmentOf(f).source = << "x" >>

\* the fragments of rule r so far are still its first fragments after the
\* step
KeepsFragments(r) ==
    /\ r <= Len(parser'.rules)
    /\ parser'.rules[r].name = parser.rules[r].name
    /\ Len(parser.rules[r].blocks) <= Len(parser'.rules[r].blocks)
    /\ SubSeq(parser'.rules[r].blocks, 1, Len(parser.rules[r].blocks))
          = parser.rules[r].blocks

\* C22: a fragment closed under a name list of several rules is in the
\* fragment list of every rule of that list, as one and the same value
\* (specification, source, filePath, startLine, endLine), and closing it
\* only appends: the fragments a rule already had stay, in place.
C22_SharedFragment ==
    /\ [](parser.pc = "done" =>
            \A f \in Fragments :
                /\ FragmentOf(f).filePath = parser.filePath
                /\ \A name \in NamesIn(parser.lines[FragmentOf(f).startLine].names) :
                      \E g \in Fragments :
                          /\ parser.result[g[1]].name = name
                          /\ FragmentOf(g) = FragmentOf(f))
    /\ [][parser.pc = "loop" /\ parser'.pc = "loop" =>
              \A r \in 1..Len(parser.rules) : KeepsFragments(r)]_parser

\* two rules closed twice under their common name list: the second fragment
\* of each is the same value and comes after the one it already had
C22_Witness ==
    /\ parser.pc = "done"
    /\ \E r, q \in 1..Len(parser.result) :
          /\ parser.result[r].name # parser.result[q].name
          /\ Len(parser.result[r].blocks) = 2
          /\ Len(parser.result[q].blocks) = 2
          /\ parser.result[r].blocks[2] = parser.result[q].blocks[2]
          /\ parser.result[r].blocks[1] # parser.result[r].blocks[2]

\* line k is a begin marker and no end marker follows it
Unclosed(k) ==
    /\ parser.lines[k].kind = "begin"
    /\ \A j \in (k+1)..Len(parser.lines) : parser.lines[j].kind # "end"

\* line k is an end marker met while no begin is open: no marker comes
\* before it, or the last marker before it is an end marker
Orphan(k) ==
    /\ parser.lines[k].kind = "end"
    /\ \A j \in 1..(k-1) :
          parser.lines[j].kind = "begin" =>
              \E x \in (j+1)..(k-1) : parser.lines[x].kind = "end"

\* C25: every rule parseFile returns has at least one fragment and every
\* fragment was closed by an end marker; a begin marker with no end marker
\* before the end of input yields no fragment and, by itself, no rule; an end
\* marker met while no begin is open changes nothing in the result.
C25_OnlyClosedFragments ==
    /\ [](parser.pc = "done" =>
            /\ \A r \in 1..Len(parser.result) : Len(parser.result[r].blocks) >= 1
            /\ \A f \in Fragments :
                  /\ FragmentOf(f).endLine \in 1..Len(parser.lines)
                  /\ DirectPair(FragmentOf(f).startLine, FragmentOf(f).endLine)
                  /\ ~Unclosed(FragmentOf(f).startLine)
            /\ \A r \in 1..Len(parser.result) :
                  \E k, j \in 1..Len(parser.lines) :
                      /\ DirectPair(k, j)
                      /\ parser.result[r].name \in NamesIn(parser.lines[k].names))
    /\ [][/\ parser.pc = "loop"
           /\ parser.i <= Len(parser.lines)
           /\ Orphan(parser.i)
           => /\ parser'.rules = parser.rules
              /\ WithBlocks(parser'.rules) = WithBlocks(parser.rules)]_parser

\* a file that starts with an end marker and ends inside a fragment that is
\* never closed: the rules of the open fragment are known to the parser and
\* none is returned
C25_Witness ==
    /\ parser.pc = "done"
    /\ Len(parser.lines) >= 2
    /\ Orphan(1)
    /\ \E k \in 2..Len(parser.lines) : Unclosed(k)
    /\ parser.rules # << >>
    /\ parser.result = << >>

\* the names of a marker, in order, without the whitespace around them
NameList(str) == [n \in 1..(Cardinality(CommasOf(str)) + 1) |-> Inner(Piece(str, n))]

\* line k is a begin marker and the next marker after it is a begin marker
Abandoned(k) ==
    /\ parser.lines[k].kind = "begin"
    /\ \E j \in (k+1)..Len(parser.lines) :
          /\ parser.lines[j].kind = "begin"
          /\ \A x \in (k+1)..(j-1) : ~IsMarker(x)

\* C32: a begin marker met while a begin is open replaces the tracking state
\* (names, specification, start line, collected source) by its own and adds
\* no fragment; the abandoned begin yields no fragment, whatever end markers
\* follow; a fragment closed by the second begin's end marker starts at the
\* second begin and its source holds no line from before it.
C32_SecondBeginReplacesFirst ==
    /\ [][/\ parser.pc = "loop"
           /\ parser.i <= Len(parser.lines)
           /\ parser.lines[parser.i].kind = "begin"
           /\ IsSome(parser.currentBlock)
           => /\ parser'.currentRuleNames = Some(NameList(parser.lines[parser.i].names))
              /\ parser'.currentBlock
                    = Some([specification |-> Inner(parser.lines[parser.i].text),
                            source |-> << >>, filePath |-> parser.filePath,
                            startLine |-> parser.i, endLine |-> 0])
              /\ WithBlocks(parser'.rules) = WithBlocks(parser.rules)
              /\ \A r \in 1..Len(parser.rules) : parser'.rules[r] = parser.rules[r]]_parser
    /\ [](parser.pc = "done" =>
            /\ \A k \in 1..Len(parser.lines) :
                  Abandoned(k) => \A f \in Fragments : FragmentOf(f).startLine # k
            /\ \A f \in Fragments :
                  /\ parser.lines[FragmentOf(f).startLine].kind = "begin"
                  /\ \A k \in 1..(FragmentOf(f).endLine - 1) :
                        parser.lines[k].kind = "begin" => k <= FragmentOf(f).startLine
                  /\ FragmentOf(f).specification
                        = Inner(parser.lines[FragmentOf(f).startLine].text)
                  /\ FragmentOf(f).source
                        = Inner(Kept(FragmentOf(f).startLine + 1,
                                     FragmentOf(f).endLine - 1)))

\* begin(a,b), a source line, begin(a), end(a): the one fragment is rule a's,
\* starts at line 3 with the specification of the second begin and holds
\* nothing of line 2; rule b, named by the abandoned begin only, is not
\* returned
C32_Witness ==
    /\ parser.pc = "done"
    /\ Len(parser.lines) = 4
    /\ Abandoned(1)
    /\ parser.lines[2].kind = "text"
    /\ Len(parser.rules) = 2
    /\ Len(parser.result) = 1
    /\ parser.result[1].name = << "a" >>
    /\ parser.result[1].blocks
          = << [specification |-> << "t" >>, source |-> << >>, filePath |-> SourcePath,
                startLine |-> 3, endLine |-> 4] >>

\* line k is a begin marker, line j the first marker after it, an end marker
\* of other names, and line e a later end marker of the begin's names with
\* no begin marker between k and e
ClosedByOtherNames(k, j, e) ==
    /\ DirectPair(k, j)
    /\ j < e
    /\ parser.lines[e].kind = "end"
    /\ ~SameNameList(parser.lines[k].names, parser.lines[j].names)
    /\ SameNameList(parser.lines[k].names, parser.lines[e].names)
    /\ \A x \in (k+1)..(e-1) : parser.lines[x].kind # "begin"

\* C33: any end marker closes the open begin, whether or not its names are
\* the begin's: after it nothing is tracked, and a fragment was added only
\* if the names are equal.  For a begin, an end marker of other names and
\* then an end marker of the begin's names with no begin in between,
\* parseFile returns no fragment that starts at the begin or ends at either
\* end marker, and the lines after the first end marker are in no fragment.
C33_AnyEndCloses ==
    /\ [][/\ parser.pc = "loop"
           /\ parser.i <= Len(parser.lines)
           /\ parser.lines[parser.i].kind = "end"
           => /\ parser'.currentRuleNames = None
              /\ parser'.currentBlock = None
              /\ (parser'.rules # parser.rules)
                    => /\ IsSome(parser.currentRuleNames)
                       /\ Get(parser.currentRuleNames)
                             = NameList(parser.lines[parser.i].names)]_parser
    /\ [](parser.pc = "done" =>
            \A k, j, e \in 1..Len(parser.lines) :
                ClosedByOtherNames(k, j, e)
                => \A f \in Fragments :
                      /\ FragmentOf(f).startLine # k
                      /\ FragmentOf(f).endLine # j
                      /\ FragmentOf(f).endLine # e
                      /\ \A x \in (j+1)..e :
                            ~(FragmentOf(f).startLine < x /\ x <= FragmentOf(f).endLine))

\* begin(a), end(a,b), a source line, end(a): nothing is returned
C33_Witness ==
    /\ parser.pc = "done"
    /\ Len(parser.lines) = 4
    /\ ClosedByOtherNames(1, 2, 4)
    /\ parser.lines[3].kind = "text"
    /\ parser.rules # << >>
    /\ parser.result = << >>

-----------------------------------------------------------------------------
(* AISpecBlockParser.parseFiles                                            *)

\* for (let i = 0; i < lines.length; i++) { ... }, then the return
RECURSIVE ParseLoop(_)
ParseLoop(p) ==
    IF p.i > Len(p.lines) THEN WithBlocks(p.rules)
    ELSE ParseLoop(ParseStep(p, p.lines[p.i]))

\* parseFile entered with the rules an earlier call on the instance left
ParseFileOnOldRules(filePath, lines) ==
    ParseLoop([ParseEntry(filePath, lines) EXCEPT
                  !.rules = IF parser.returned = << >> THEN << >>
                            ELSE parser.returned[Len(parser.returned)].fileRules])

\* parseFile on a file that could be read
ParseFile(filePath, lines) == ParseLoop(ParseEntry(filePath, lines))

\* rulesMap.set(rule.name, rule) also for a name the map has
MergeRuleReplacing(rulesMap, rule) ==
    IF \E k \in 1..Len(rulesMap) : rulesMap[k].name = rule.name
    THEN [k \in 1..Len(rulesMap) |->
             IF rulesMap[k].name = rule.name THEN rule ELSE rulesMap[k]]
    ELSE Append(rulesMap, rule)

\* every rule of every file becomes a rule of the map
MergeRuleAlwaysNew(rulesMap, rule) == Append(rulesMap, rule)

\* if (rulesMap.has(rule.name)) existingRule.blocks.push(...rule.blocks)
\* else rulesMap.set(rule.name, rule)
MergeRule(rulesMap, rule) ==
    IF \E k \in 1..Len(rulesMap) : rulesMap[k].name = rule.name
    THEN [k \in 1..Len(rulesMap) |->
             IF rulesMap[k].name = rule.name
             THEN [rulesMap[k] EXCEPT !.blocks = @ \o rule.blocks]
             ELSE rulesMap[k]]
    ELSE Append(rulesMap, rule)

\* for (const rule of fileRules) { ... }
RECURSIVE MergeFileRules(_, _)
MergeFileRules(rulesMap, fileRules) ==
    IF fileRules = << >> THEN rulesMap
    ELSE MergeFileRules(MergeRule(rulesMap, Head(fileRules)), Tail(fileRules))

\* the error of parseFile leaves parseFiles
OnFileErrorRethrow(p) == [p EXCEPT !.pc = "failed"]

\* catch (error) { console.warn(...) }: on to the next path
OnFileError(p) == [p EXCEPT !.f = @ + 1]

\* parseFile returned fileRules: merge them and go on to the next path
OnFileRules(p, content, fileRules) ==
    [p EXCEPT !.f = @ + 1,
              !.rulesMap = MergeFileRules(@, fileRules),
              !.returned = Append(@, [filePath |-> p.filePaths[p.f],
                                      content |-> content,
                                      fileRules |-> fileRules])]

\* one iteration of for (const filePath of filePaths), on the file system
\* files: readFile rejects for a path that holds no readable file
ParseFilesStep(p, files) ==
    IF IsSome(files[p.filePaths[p.f]])
    THEN OnFileRules(p, Get(files[p.filePaths[p.f]]),
                     ParseFile(p.filePaths[p.f], Get(files[p.filePaths[p.f]])))
    ELSE OnFileError(p)

\* the locals of parseFiles before its loop
ParseFilesEntry(filePaths) ==
    [pc |-> "files", filePaths |-> filePaths, f |-> 1, rulesMap |-> << >>,
     returned |-> << >>, result |-> << >>]

MaxPaths == 3

SourcePaths == { "a.ts", "b.ts", "c.ts" }

\* the source files: a fragment of two rules, a fragment of one rule, a
\* fragment of one rule followed by one of two rules, no marker, a fragment
\* left open
SourceFiles ==
    { << BeginLine(<<"a", ",", "b">>, <<"s">>), TextLine(<<"x">>),
         EndLine(<<"a", ",", "b">>) >>,
      << BeginLine(<<"a">>, <<" ", "s">>), TextLine(<<"x">>), EndLine(<<"a">>) >>,
      << BeginLine(<<"b">>, <<"t">>), EndLine(<<"b">>),
         BeginLine(<<"a", ",", "b">>, <<"s">>), TextLine(<<"x">>),
         EndLine(<<"a", ",", "b">>) >>,
      << TextLine(<<"x">>) >>,
      << BeginLine(<<"a">>, <<"s">>), TextLine(<<"x">>) >> }

InitParseFiles ==
    /\ fs \in [SourcePaths -> {None} \cup { Some(text) : text \in SourceFiles }]
    /\ configCache = EmptyCache
    /\ directoryConfigCache = EmptyCache
    /\ scannerCache = EmptyCache
    /\ lastOp = NoOp
    /\ chunker = IdleChunker
    /\ sender = IdleSender
    /\ \E n \in 0..MaxPaths :
         \E filePaths \in [1..n -> SourcePaths] :
            parser = ParseFilesEntry(filePaths)

\* one iteration of for (const filePath of filePaths)
ParseNextFile ==
    /\ parser.pc = "files"
    /\ parser.f <= Len(parser.filePaths)
    /\ parser' = ParseFilesStep(parser, fs)
    /\ UNCHANGED << fs, configCache, directoryConfigCache, scannerCache, lastOp,
                    chunker, sender >>

\* return Array.from(rulesMap.values())
ParseFilesReturn ==
    /\ parser.pc = "files"
    /\ parser.f > Len(parser.filePaths)
    /\ parser' = [parser EXCEPT !.pc = "done", !.result = parser.rulesMap]
    /\ UNCHANGED << fs, configCache, directoryConfigCache, scannerCache, lastOp,
                    chunker, sender >>

NextParseFiles == ParseNextFile \/ ParseFilesReturn

SpecParseFiles == InitParseFiles /\ [][NextParseFiles]_parseVars

-----------------------------------------------------------------------------
(* What parseFiles returns, file by file.                                   *)

\* what parseFile returns for the k-th path; nothing when it cannot be read
FileRulesAt(k) ==
    IF IsSome(fs[parser.filePaths[k]])
    THEN ParseFile(parser.filePaths[k], Get(fs[parser.filePaths[k]]))
    ELSE << >>

\* the fragments of the rule called name in a rule list
BlocksNamed(name, rules) ==
    IF \E r \in 1..Len(rules) : rules[r].name = name
    THEN rules[CHOOSE r \in 1..Len(rules) : rules[r].name = name].blocks
    ELSE << >>

\* the fragments of the rule in the files of paths k, k + 1, ..., in order
RECURSIVE Concatenated(_, _)
Concatenated(name, k) ==
    IF k > Len(parser.filePaths) THEN << >>
    ELSE BlocksNamed(name, FileRulesAt(k)) \o Concatenated(name, k + 1)

\* the rule names of the source files
SourceRuleNames == { << "a" >>, << "b" >> }

\* C23: parseFiles(paths) returns, for each rule name, the concatenation of
\* the rule's per-file fragment lists in the order of paths, in text order
\* within a file; no fragment is dropped, reordered or de-duplicated, and a
\* rule name is returned once.
C23_ConcatenatedInPathOrder ==
    parser.pc = "done" =>
        /\ \A name \in SourceRuleNames :
              BlocksNamed(name, parser.result) = Concatenated(name, 1)
        /\ \A r \in 1..Len(parser.result) : parser.result[r].name \in SourceRuleNames
        /\ \A r, q \in 1..Len(parser.result) :
              parser.result[r].name = parser.result[q].name => r = q
        /\ \A r \in 1..Len(parser.result) :
              \A b \in 1..(Len(parser.result[r].blocks) - 1) :
                  \/ parser.result[r].blocks[b].startLine
                        < parser.result[r].blocks[b + 1].startLine
                  \/ \E k \in 1..Len(parser.filePaths) :
                        /\ BlocksNamed(parser.result[r].name, FileRulesAt(k)) # << >>
                        /\ parser.result[r].blocks[b + 1]
                              = BlocksNamed(parser.result[r].name, FileRulesAt(k))[1]

\* one path given twice and another after it: the rule has the fragment of
\* the first file twice, as equal values, and then that of the other file
C23_Witness ==
    /\ parser.pc = "done"
    /\ Len(parser.filePaths) = 3
    /\ parser.filePaths[1] = parser.filePaths[2]
    /\ parser.filePaths[3] # parser.filePaths[1]
    /\ \E r \in 1..Len(parser.result) :
          /\ Len(parser.result[r].blocks) >= 3
          /\ parser.result[r].blocks[1] = parser.result[r].blocks[2]
          /\ parser.result[r].blocks[3].filePath = parser.filePaths[3]

\* the paths given to parseFiles whose files can be read, in order
ReadablePaths == SelectSeq(parser.filePaths, LAMBDA path : IsSome(fs[path]))

\* what parseFiles returns when its loop goes on from p
RECURSIVE ParseFilesFrom(_)
ParseFilesFrom(p) ==
    IF p.pc # "files" THEN p.pc
    ELSE IF p.f > Len(p.filePaths) THEN p.rulesMap
    ELSE ParseFilesFrom(ParseFilesStep(p, fs))

\* C24: when reading one of the files given to parseFiles fails, parseFiles
\* does not fail, and what it returns is what it returns for the same path
\* list without the files that cannot be read.
C24_UnreadableFileSkipped ==
    /\ parser.pc \in {"files", "done"}
    /\ parser.pc = "done" =>
          parser.result = ParseFilesFrom(ParseFilesEntry(ReadablePaths))

\* three paths of which the second cannot be read, and rules from the files
\* before and after it
C24_Witness ==
    /\ parser.pc = "done"
    /\ Len(parser.filePaths) = 3
    /\ ~IsSome(fs[parser.filePaths[2]])
    /\ FileRulesAt(1) # << >>
    /\ FileRulesAt(3) # << >>
    /\ FileRulesAt(1) # FileRulesAt(3)
    /\ parser.result # << >>

DistinctNames(rules) ==
    \A r, q \in 1..Len(rules) : rules[r].name = rules[q].name => r = q

\* the paths among those given whose file, parsed alone, has a rule called
\* name
DeclaredIn(name) ==
    { k \in 1..Len(parser.filePaths) : BlocksNamed(name, FileRulesAt(k)) # << >> }

\* C37: parseFiles returns at most one Rule per rule name: the names of its
\* result, and of the rules it holds while it goes through the files, are
\* pairwise distinct however many files and fragments declare a name, and a
\* name that some file gives a fragment is returned, once.
C37_OneRulePerName ==
    /\ parser.pc \in {"files", "done"} => DistinctNames(parser.rulesMap)
    /\ \A k \in 1..Len(parser.returned) : DistinctNames(parser.returned[k].fileRules)
    /\ parser.pc = "done" =>
          /\ DistinctNames(parser.result)
          /\ \A name \in SourceRuleNames :
                Cardinality({ r \in 1..Len(parser.result) : parser.result[r].name = name })
                   = IF DeclaredIn(name) = {} THEN 0 ELSE 1

\* three files that all declare one rule, one of them in two fragments: the
\* rule is returned once, with fragments of the three files
C37_Witness ==
    /\ parser.pc = "done"
    /\ \E name \in SourceRuleNames :
          /\ Cardinality(DeclaredIn(name)) = 3
          /\ \E k \in DeclaredIn(name) : Len(BlocksNamed(name, FileRulesAt(k))) = 2
          /\ Cardinality({ BlocksNamed(name, parser.result)[b].filePath :
                             b \in 1..Len(BlocksNamed(name, parser.result)) }) = 3

-----------------------------------------------------------------------------
(* SendRulesToAI.validateRules                                             *)

ErrConflict == "Configuration conflict detected"
ErrNoApiConfig == "No API configuration available"
ErrOracle == "processChunk threw"

\* serializeConfig(null)
NullKey == << "null" >>

\* a key that leaves the model name out
SerializeConfigNoModel(config) ==
    IF ~IsSome(config) THEN NullKey
    ELSE << Get(config).baseUrl, "", Get(config).apiKey, Get(config).temperature >>

\* JSON.stringify({ baseUrl, modelName, apiKey, temperature }), or 'null'
SerializeConfig(config) ==
    IF ~IsSome(config) THEN NullKey
    ELSE << Get(config).baseUrl, Get(config).modelName, Get(config).apiKey,
            Get(config).temperature >>

\* parseConfigKey, where it does not throw
ParseConfigKey(configKey, fallbackApiConfig) ==
    IF configKey = NullKey THEN Get(fallbackApiConfig)
    ELSE ApiConfig(configKey[1], configKey[2], configKey[3], configKey[4])

BlockPaths(rule) == [i \in 1..Len(rule.blocks) |-> rule.blocks[i].filePath]

\* what validateRuleConfigurations and groupRulesByApiConfig come to
Checked(kind, err, rule, paths, groups, cc, dc) ==
    [kind |-> kind, err |-> err, rule |-> rule, paths |-> paths, groups |-> groups,
     cc |-> cc, dc |-> dc]

\* a rule is in conflict only when two of its blocks have a configuration
ConflictAmongConfigured(configs) == Cardinality(configs \ {NullKey}) > 1

\* configs.size > 1
ConflictFound(configs) == Cardinality(configs) > 1

RECURSIVE ValidateBlocks(_, _, _, _, _, _), ValidateFrom(_, _, _, _)

\* validateRuleConfigurations: block i of rule k resolved to r
BlockResolved(rules, k, i, configs, r) ==
    IF r.kind # "ok"
    THEN Checked(r.kind, r.err, rules[k].name, << >>, << >>, r.cc, r.dc)
    ELSE ValidateBlocks(rules, k, i + 1, configs \cup {SerializeConfig(r.val)}, r.cc, r.dc)

\* validateRuleConfigurations: for (const block of rule.blocks), then the
\* size check
ValidateBlocks(rules, k, i, configs, cc, dc) ==
    IF i <= Len(rules[k].blocks)
    THEN BlockResolved(rules, k, i, configs,
                       ResolveApiConfigForFile(rules[k].blocks[i].filePath,
                                               rules[k].name, cc, dc))
    ELSE IF ConflictFound(configs)
    THEN Checked("throw", ErrConflict, rules[k].name, BlockPaths(rules[k]), << >>, cc, dc)
    ELSE ValidateFrom(rules, k + 1, cc, dc)

\* validateRuleConfigurations: for (const rule of rules)
ValidateFrom(rules, k, cc, dc) ==
    IF k > Len(rules) THEN Checked("ok", "", << >>, << >>, << >>, cc, dc)
    ELSE ValidateBlocks(rules, k, 1, {}, cc, dc)

ValidateRuleConfigurations(directoryScanner, rules, cc, dc) ==
    IF ~directoryScanner THEN Checked("ok", "", << >>, << >>, << >>, cc, dc)
    ELSE ValidateFrom(rules, 1, cc, dc)

\* a new group put before the groups there are
AddToGroupFront(groups, configKey, rule) ==
    IF \E g \in 1..Len(groups) : groups[g].key = configKey
    THEN [g \in 1..Len(groups) |->
            IF groups[g].key = configKey
            THEN [groups[g] EXCEPT !.rules = Append(@, rule)] ELSE groups[g]]
    ELSE << [key |-> configKey, rules |-> << rule >>] >> \o groups

\* if (!groups.has(configKey)) groups.set(configKey, []);
\* groups.get(configKey).push(rule)
AddToGroup(groups, configKey, rule) ==
    IF \E g \in 1..Len(groups) : groups[g].key = configKey
    THEN [g \in 1..Len(groups) |->
            IF groups[g].key = configKey
            THEN [groups[g] EXCEPT !.rules = Append(@, rule)] ELSE groups[g]]
    ELSE Append(groups, [key |-> configKey, rules |-> << rule >>])

RECURSIVE GroupFrom(_, _, _, _, _, _, _)

\* groupRulesByApiConfig: the first block of rule k resolved to r
FirstBlockResolved(directoryScanner, fallbackApiConfig, rules, k, groups, r) ==
    IF r.kind # "ok"
    THEN Checked(r.kind, r.err, rules[k].name, << >>, << >>, r.cc, r.dc)
    ELSE GroupFrom(directoryScanner, fallbackApiConfig, rules, k + 1,
                   AddToGroup(groups, SerializeConfig(OrElse(r.val, fallbackApiConfig)),
                              rules[k]),
                   r.cc, r.dc)

\* groupRulesByApiConfig: for (const rule of rules)
GroupFrom(directoryScanner, fallbackApiConfig, rules, k, groups, cc, dc) ==
    IF k > Len(rules) THEN Checked("ok", "", << >>, << >>, groups, cc, dc)
    ELSE IF directoryScanner /\ Len(rules[k].blocks) > 0
    THEN FirstBlockResolved(directoryScanner, fallbackApiConfig, rules, k, groups,
                            ResolveApiConfigForFile(rules[k].blocks[1].filePath,
                                                    rules[k].name, cc, dc))
    ELSE GroupFrom(directoryScanner, fallbackApiConfig, rules, k + 1,
                   AddToGroup(groups, SerializeConfig(fallbackApiConfig), rules[k]),
                   cc, dc)

GroupRulesByApiConfig(directoryScanner, fallbackApiConfig, rules, cc, dc) ==
    GroupFrom(directoryScanner, fallbackApiConfig, rules, 1, << >>, cc, dc)

NoError == [err |-> "", rule |-> << >>, paths |-> << >>]

\* validateRules from where no call is in flight: the next chunk of the
\* current group, else the next group, else return
RECURSIVE Advance(_)
Advance(s) ==
    IF s.chunks # << >>
    THEN [s EXCEPT !.pc = "calling",
                   !.calls = Append(@, [rules |-> Head(s.chunks),
                                        apiConfig |-> Get(s.apiConfig)]),
                   !.chunks = Tail(@)]
    ELSE IF s.groups = << >> THEN [s EXCEPT !.pc = "done"]
    ELSE IF Head(s.groups).key = NullKey /\ ~IsSome(s.fallbackApiConfig)
    THEN [s EXCEPT !.pc = "failed", !.error = [NoError EXCEPT !.err = ErrNoApiConfig]]
    ELSE Advance([s EXCEPT
                    !.apiConfig = Some(ParseConfigKey(Head(s.groups).key,
                                                      s.fallbackApiConfig)),
                    !.chunks = ChunkRules(Head(s.groups).rules, s.maxChunkSize),
                    !.groups = Tail(@)])

\* validateRules, once the rules are grouped or a check has thrown
AfterChecks(s, g) ==
    [s |-> IF g.kind = "ok" THEN Advance([s EXCEPT !.groups = g.groups])
           ELSE [s EXCEPT !.pc = IF g.kind = "hang" THEN "hung" ELSE "failed",
                          !.error = [err |-> g.err, rule |-> g.rule, paths |-> g.paths]],
     cc |-> g.cc, dc |-> g.dc]

\* validateRules, once validateRuleConfigurations has come to v
AfterValidation(s, v) ==
    IF v.kind # "ok" THEN AfterChecks(s, v)
    ELSE AfterChecks(s, GroupRulesByApiConfig(s.directoryScanner, s.fallbackApiConfig,
                                              s.rules, v.cc, v.dc))

-----------------------------------------------------------------------------
(* validateRules, call by call, on any rules over any tree of config files. *)

\* the blocks a rule may have: none, one in either of two nested
\* directories, or one in each
SenderBlocks ==
    { << >>, << Block(1, 30) >>, << Block(2, 30) >>, << Block(1, 30), Block(2, 30) >> }

\* the config file a directory may hold; the root's is self-contained
SenderFiles(d) ==
    IF d = 0
    THEN { None, Some(RawConfig("empty", Some(ApiOne), None)) }
    ELSE { None,
           Some(RawConfig("default", None, Some(<< << <<"a","*">>, OnlyModel >> >>))),
           Some(RawConfig(Undef, Some(ApiTwo), None)),
           Some(RawConfig("empty", None, Some(<< << <<"a","b">>, UrlAndTemp >> >>))) }

\* configured maxChunkSize: unset, or room for one rule at a time
SenderSizes == { 0, 200 }

sendVars ==
    << fs, configCache, directoryConfigCache, scannerCache, lastOp, chunker, parser, sender >>

\* new SendRulesToAI(config), and the rules handed to validateRules together
\* with an onProgress callback
InitSend ==
    /\ configCache = EmptyCache
    /\ directoryConfigCache = EmptyCache
    /\ scannerCache = EmptyCache
    /\ lastOp = NoOp
    /\ chunker = IdleChunker
    /\ parser = IdleParser
    /\ \E directoryScanner \in BOOLEAN :
          /\ fs \in IF directoryScanner
                    THEN { f \in [Dirs -> UNION { SenderFiles(d) : d \in Dirs }] :
                             \A d \in Dirs : f[d] \in SenderFiles(d) }
                    ELSE { [d \in Dirs |-> None] }
          /\ \E n \in 0..MaxRules, size \in SenderSizes,
                fallback \in { None, Some(ApiOne) } :
                \E names \in [1..n -> RuleNames], blocks \in [1..n -> SenderBlocks] :
                   /\ \A i, j \in 1..n : i # j => names[i] # names[j]
                   /\ sender = [pc |-> "start",
                                directoryScanner |-> directoryScanner,
                                fallbackApiConfig |-> fallback,
                                maxChunkSize |-> MaxChunkSizeOf(size),
                                rules |-> [i \in 1..n |-> Rule(names[i], blocks[i])],
                                groups |-> << >>, chunks |-> << >>, apiConfig |-> None,
                                calls |-> << >>, results |-> {}, error |-> NoError,
                                onProgress |-> TRUE, processedRules |-> 0,
                                progress |-> << >>]

Sent(out) ==
    /\ sender' = out.s
    /\ configCache' = out.cc
    /\ directoryConfigCache' = out.dc

\* validateRules up to its first await of processChunk
StartValidate ==
    /\ sender.pc = "start"
    /\ Sent(AfterValidation(sender,
                            ValidateRuleConfigurations(sender.directoryScanner, sender.rules,
                                                       configCache, directoryConfigCache)))
    /\ UNCHANGED << fs, scannerCache, lastOp, chunker, parser >>

\* the chunk in flight
InFlight == sender.calls[Len(sender.calls)]

\* the rule names of a batch
NamesOf(rules) == { rules[i].name : i \in 1..Len(rules) }

\* a name no rule of the input carries
ForeignName == << "z" >>

\* the key sets of the responses outputSchema.parse lets through for a batch
\* (z.record: any keys): a verdict for each rule of the batch, or the first
\* rule's verdict under a name that is not its own
OracleResponses(rules) ==
    { NamesOf(rules), (NamesOf(rules) \ { rules[1].name }) \cup { ForeignName } }

\* the observer told the size of the batch that came back, not the rules
\* processed so far
AssignedPerBatch(s, chunkResults) ==
    [s EXCEPT !.results = @ \cup chunkResults,
              !.processedRules = @ + Len(s.calls[Len(s.calls)].rules),
              !.progress = IF s.onProgress
                           THEN Append(@, << Len(s.calls[Len(s.calls)].rules),
                                             Len(s.rules) >>)
                           ELSE @]

\* validateRules after processChunk gave chunkResults:
\* Object.assign(results, chunkResults), processedRules += chunk.length,
\* onProgress(processedRules, totalRules)
Assigned(s, chunkResults) ==
    [s EXCEPT !.results = @ \cup chunkResults,
              !.processedRules = @ + Len(s.calls[Len(s.calls)].rules),
              !.progress = IF s.onProgress
                           THEN Append(@, << s.processedRules
                                               + Len(s.calls[Len(s.calls)].rules),
                                             Len(s.rules) >>)
                           ELSE @]

\* the await of processChunk throws again and again: the batch goes out anew
RejectedAndRetried(s, err) ==
    [s EXCEPT !.calls = Append(@, s.calls[Len(s.calls)])]

\* validateRules when the await of processChunk throws: nothing catches it
Rejected(s, err) ==
    [s EXCEPT !.pc = "failed", !.error = [NoError EXCEPT !.err = err]]

\* processChunk returns a response that passed the schema, and validateRules
\* runs on to the next await
OracleReturns ==
    /\ sender.pc = "calling"
    /\ \E chunkResults \in OracleResponses(InFlight.rules) :
          sender' = Advance(Assigned(sender, chunkResults))
    /\ UNCHANGED << fs, configCache, directoryConfigCache, scannerCache, lastOp,
                    chunker, parser >>

\* processChunk throws (no tool call, another tool, no arguments, arguments
\* that are not JSON or that fail the schema): validateRules rejects
OracleThrows ==
    /\ sender.pc = "calling"
    /\ sender' = Rejected(sender, ErrOracle)
    /\ UNCHANGED << fs, configCache, directoryConfigCache, scannerCache, lastOp,
                    chunker, parser >>

NextSend == StartValidate \/ OracleReturns \/ OracleThrows

SpecSend == InitSend /\ [][NextSend]_sendVars

-----------------------------------------------------------------------------
(* What a run of validateRules was given, resolved afresh.                  *)

Started == sender.pc \in {"calling", "done", "failed"}

\* resolveApiConfigForFile on block b of input rule k
Resolution(k, b) ==
    ResolveApiConfigForFile(sender.rules[k].blocks[b].filePath, sender.rules[k].name,
                            configCache, directoryConfigCache)

BlocksOf(k) == 1..Len(sender.rules[k].blocks)

ResolutionThrows(k) == \E b \in BlocksOf(k) : Resolution(k, b).kind # "ok"

\* the distinct tuples the fragments of rule k resolve to
TuplesOf(k) ==
    { Resolution(k, b).val : b \in { x \in BlocksOf(k) : Resolution(k, x).kind = "ok" } }
        \ { None }

\* the distinct results, a tuple or none, the fragments of rule k resolve to
ResultsOf(k) == { Resolution(k, b).val : b \in BlocksOf(k) }

ConflictErrorFor(k) ==
    /\ sender.pc = "failed"
    /\ sender.error.err = ErrConflict
    /\ sender.error.rule = sender.rules[k].name
    /\ sender.error.paths = [b \in BlocksOf(k) |-> sender.rules[k].blocks[b].filePath]

\* C1 as claimed: when the fragments of some rule resolve to more than one
\* tuple, validateRules rejects with the conflict error naming a rule with
\* such fragments and listing its fragments' paths, with no oracle call
\* issued.
C1_ConflictNamesRule ==
    ( /\ Started
      /\ sender.directoryScanner
      /\ \E k \in 1..Len(sender.rules) : Cardinality(TuplesOf(k)) > 1 )
    => /\ sender.calls = << >>
       /\ \E k \in 1..Len(sender.rules) :
             Cardinality(TuplesOf(k)) > 1 /\ ConflictErrorFor(k)

\* C1: with a directory scanner, if the fragments of some rule resolve to
\* more than one result (a tuple, or no configuration), validateRules rejects
\* and no oracle call is issued in that run; the error is the conflict error
\* naming the first such rule in input order and listing every fragment path
\* of it, unless a resolution for that rule or an earlier one throws, and
\* then it is that resolution's error.
C1_FirstConflictRejected ==
    (Started /\ sender.directoryScanner) =>
        LET trouble == { k \in 1..Len(sender.rules) :
                           ResolutionThrows(k) \/ Cardinality(ResultsOf(k)) > 1 }
            first == CHOOSE k \in trouble : \A j \in trouble : k <= j
        IN  IF trouble = {} THEN sender.error.err # ErrConflict
            ELSE /\ sender.pc = "failed"
                 /\ sender.calls = << >>
                 /\ IF ResolutionThrows(first)
                    THEN /\ sender.error.err = ErrNoBaseApiConfig
                         /\ sender.error.rule = sender.rules[first].name
                    ELSE ConflictErrorFor(first)

\* the second rule's two fragments resolve to two tuples, the first rule's
\* to one: rejected for the second rule, both its paths listed
C1_Witness ==
    /\ sender.pc = "failed"
    /\ sender.error.err = ErrConflict
    /\ Len(sender.rules) > 1
    /\ sender.error.rule = sender.rules[2].name
    /\ Len(sender.error.paths) = 2
    /\ Cardinality(TuplesOf(2)) = 2
    /\ Len(sender.rules[1].blocks) = 2

\* the tuple a rule is to be sent with: what its fragments resolve to, else
\* the tuple the service was constructed with
EffectiveTuples(rule) ==
    IF sender.directoryScanner /\ rule.blocks # << >>
    THEN { OrElse(ResolveApiConfigForFile(rule.blocks[b].filePath, rule.name,
                                          configCache, directoryConfigCache).val,
                  sender.fallbackApiConfig) : b \in 1..Len(rule.blocks) }
    ELSE { sender.fallbackApiConfig }

CallsWith(name) ==
    { c \in 1..Len(sender.calls) :
        \E i \in 1..Len(sender.calls[c].rules) : sender.calls[c].rules[i].name = name }

\* C2: every oracle call carries rules that all resolve to one tuple, and is
\* made with that tuple; no rule is in two calls, and when validateRules
\* returns every rule has been in one.
C2_BatchesUniform ==
    Started =>
        /\ \A c \in 1..Len(sender.calls) :
              /\ sender.calls[c].rules # << >>
              /\ \A i \in 1..Len(sender.calls[c].rules) :
                    /\ EffectiveTuples(sender.calls[c].rules[i])
                          = { Some(sender.calls[c].apiConfig) }
                    /\ \E k \in 1..Len(sender.rules) :
                          sender.rules[k] = sender.calls[c].rules[i]
                    /\ \A j \in 1..Len(sender.calls[c].rules) :
                          sender.calls[c].rules[j].name = sender.calls[c].rules[i].name
                          => i = j
        /\ \A k \in 1..Len(sender.rules) :
              /\ Cardinality(CallsWith(sender.rules[k].name)) <= 1
              /\ sender.pc = "done" => Cardinality(CallsWith(sender.rules[k].name)) = 1

\* a finished run of two calls with different tuples, one of them carrying
\* two rules whose fragments lie in different directories
C2_Witness ==
    /\ sender.pc = "done"
    /\ sender.directoryScanner
    /\ \E c, d \in 1..Len(sender.calls) :
          /\ sender.calls[c].apiConfig # sender.calls[d].apiConfig
          /\ Len(sender.calls[c].rules) = 2
          /\ sender.calls[c].rules[1].blocks # sender.calls[c].rules[2].blocks
          /\ sender.calls[c].rules[1].blocks # << >>
          /\ sender.calls[c].rules[2].blocks # << >>

\* the call that carried input rule k
CallOf(k) == CHOOSE c \in CallsWith(sender.rules[k].name) : TRUE

Submitted(k) == CallsWith(sender.rules[k].name) # {}

\* C10 as claimed: for input rules r1 before r2, the batch with r1 is
\* submitted no later than the batch with r2.
C10_DiscoveryOrder ==
    Started =>
        \A k1, k2 \in 1..Len(sender.rules) :
            (k1 < k2 /\ Submitted(k2)) => (Submitted(k1) /\ CallOf(k1) <= CallOf(k2))

\* the first input rule sent with the same tuple as rule k
GroupLeader(k) ==
    CHOOSE j \in 1..k :
        /\ Submitted(j)
        /\ sender.calls[CallOf(j)].apiConfig = sender.calls[CallOf(k)].apiConfig
        /\ \A x \in 1..(j - 1) :
              Submitted(x)
              => sender.calls[CallOf(x)].apiConfig # sender.calls[CallOf(k)].apiConfig

\* C10: oracle calls are issued one at a time, each after the one before it
\* returned; among rules sent with the same tuple the batches follow input
\* order, and the tuples are served one after the other, in the order of
\* the first input rule of each.
C10_OrderWithinGroups ==
    /\ [][ Len(sender'.calls) # Len(sender.calls) =>
             /\ Len(sender'.calls) = Len(sender.calls) + 1
             /\ sender.pc \in {"start", "calling"}
             /\ sender.pc = "calling" =>
                   /\ sender'.pc # "failed"
                   /\ sender'.processedRules
                         = sender.processedRules + Len(InFlight.rules) ]_sendVars
    /\ [] ( Started =>
             \A k1, k2 \in 1..Len(sender.rules) :
                 ( Submitted(k1) /\ Submitted(k2) ) =>
                    /\ ( /\ k1 < k2
                         /\ sender.calls[CallOf(k1)].apiConfig
                               = sender.calls[CallOf(k2)].apiConfig )
                       => CallOf(k1) <= CallOf(k2)
                    /\ GroupLeader(k1) < GroupLeader(k2) => CallOf(k1) < CallOf(k2) )

\* three rules, the first and third with one tuple and the second with
\* another, each in a batch of its own: the third went out before the second
C10_Witness ==
    /\ sender.pc = "done"
    /\ Len(sender.rules) = 3
    /\ Len(sender.calls) = 3
    /\ CallOf(1) = 1 /\ CallOf(3) = 2 /\ CallOf(2) = 3

\* the tuples oracle calls were made with
TuplesCalled == { sender.calls[c].apiConfig : c \in 1..Len(sender.calls) }

\* the batches submitted with tuple api, in the order of their calls, and
\* after them the batches of that group still to be submitted
BatchesWith(api) ==
    LET made == SelectSeq(sender.calls, LAMBDA call : call.apiConfig = api)
    IN  [c \in 1..Len(made) |-> made[c].rules]
        \o (IF sender.pc = "calling" /\ InFlight.apiConfig = api
            THEN sender.chunks ELSE << >>)

\* the input rules that are to be sent with tuple api, in input order
GroupOf(api) == SelectSeq(sender.rules, LAMBDA rule : EffectiveTuples(rule) = { Some(api) })

\* the places, call and position, where input rule k was submitted
PlacesOf(k) ==
    { << c, i >> \in (1..Len(sender.calls)) \X (1..Len(sender.rules)) :
        /\ i <= Len(sender.calls[c].rules)
        /\ sender.calls[c].rules[i] = sender.rules[k] }

\* C34: the batches partition the input rules: for each parameter group the
\* batches of the group, concatenated in order, are the group's rules in
\* input order, no batch is empty, and when validateRules returns every
\* input rule has been submitted in exactly one batch, once.
C34_BatchesPartitionInput ==
    sender.pc \in {"calling", "done"} =>
        /\ \A api \in TuplesCalled :
              /\ Flatten(BatchesWith(api)) = GroupOf(api)
              /\ \A c \in 1..Len(BatchesWith(api)) : BatchesWith(api)[c] # << >>
        /\ \A k \in 1..Len(sender.rules) : Cardinality(PlacesOf(k)) <= 1
        /\ sender.pc = "done" =>
              \A k \in 1..Len(sender.rules) : Cardinality(PlacesOf(k)) = 1

\* a finished run over three rules in two groups: the first and the third
\* rule went out with one tuple in two batches, the second rule with
\* another tuple
C34_Witness ==
    /\ sender.pc = "done"
    /\ Len(sender.rules) = 3
    /\ Cardinality(TuplesCalled) = 2
    /\ \E api \in TuplesCalled :
          /\ Len(BatchesWith(api)) = 2
          /\ Flatten(BatchesWith(api)) = << sender.rules[1], sender.rules[3] >>

\* input rule k has no usable API configuration: the service was given no
\* fallback apiConfig, and it has no scanner, or the rule has no fragment,
\* or the scanner resolves the rule's fragments to null
NoUsableConfig(k) ==
    /\ ~IsSome(sender.fallbackApiConfig)
    /\ \/ ~sender.directoryScanner
       \/ sender.rules[k].blocks = << >>
       \/ ResultsOf(k) = { None }

\* the configuration check before grouping finds nothing: no resolution
\* throws and no rule's fragments resolve to different results
ChecksPass ==
    sender.directoryScanner =>
        \A k \in 1..Len(sender.rules) :
            ~ResolutionThrows(k) /\ Cardinality(ResultsOf(k)) <= 1

\* C38 as claimed: if some input rule has no usable API configuration,
\* validateRules fails with "No API configuration available" before any
\* oracle call of that run has been issued.
C38_NoConfigFailsBeforeCalls ==
    (ChecksPass /\ \E k \in 1..Len(sender.rules) : NoUsableConfig(k))
    => /\ sender.calls = << >>
       /\ sender.pc \in {"start", "failed"}
       /\ sender.pc = "failed" => sender.error.err = ErrNoApiConfig

\* C11 as claimed: a validateRules call that returns normally yields a result
\* map whose keys are exactly the names of the rules it was given, each of
\* them submitted in one batch.
C11_VerdictPerSubmittedRule ==
    sender.pc = "done" =>
        /\ \A k \in 1..Len(sender.rules) : Submitted(k)
        /\ sender.results = NamesOf(sender.rules)

\* the batches handed to processChunk whose await came back
ReturnedCalls ==
    IF sender.pc = "calling" \/ sender.error.err = ErrOracle
    THEN 1..(Len(sender.calls) - 1) ELSE 1..Len(sender.calls)

\* C12: when processChunk throws for a batch, validateRules rejects there
\* and then: the step leaves the calls made, the progress reported and the
\* results gathered as they were, nothing happens after it, the failed batch
\* is the last one submitted and was submitted once, progress was reported
\* only for the batches before it, and the run does not end in a return.
C12_OracleFailureIsFatal ==
    /\ [][ /\ sender.pc = "failed" => sender' = sender
           /\ sender'.error.err = ErrOracle =>
                 /\ sender'.pc = "failed"
                 /\ sender'.calls = sender.calls
                 /\ sender'.progress = sender.progress
                 /\ sender'.results = sender.results ]_sendVars
    /\ [] ( Started =>
              /\ \A c, d \in 1..Len(sender.calls) :
                    sender.calls[c] = sender.calls[d] => c = d
              /\ Len(sender.progress) = Cardinality(ReturnedCalls)
              /\ sender.error.err = ErrOracle =>
                    /\ sender.pc = "failed"
                    /\ sender.calls # << >> )

\* the second batch of three failed: one progress report, the third rule
\* never submitted
C12_Witness ==
    /\ sender.pc = "failed"
    /\ sender.error.err = ErrOracle
    /\ Len(sender.calls) = 2
    /\ Len(sender.progress) = 1
    /\ Len(sender.rules) = 3
    /\ ~Submitted(3)
    /\ sender.results # {}

-----------------------------------------------------------------------------
(* The progress observer.                                                   *)

\* the number of rules in the first k batches submitted
RECURSIVE Completed(_)
Completed(k) ==
    IF k = 0 THEN 0 ELSE Completed(k - 1) + Len(sender.calls[k].rules)

\* the run, its progress reports aside, with no observer given
Unobserved(s) == [s EXCEPT !.onProgress = FALSE, !.progress = << >>]

\* the await of processChunk comes back with a response in this step
BatchReturns ==
    /\ sender.pc = "calling"
    /\ ~(sender'.pc = "failed" /\ sender'.error.err = ErrOracle)

-----------------------------------------------------------------------------
(* One scanner and its loader over config files that are rewritten between  *)
(* the calls.                                                               *)

\* the texts a config file may have: self-contained, with one apiConfig or
\* another
ReloadFiles ==
    { RawConfig("empty", Some(ApiOne), None),
      RawConfig("empty", Some(ApiTwo), None) }

InitReload ==
    /\ fs \in [Dirs -> {None} \cup { Some(f) : f \in ReloadFiles }]
    /\ configCache = EmptyCache
    /\ directoryConfigCache = EmptyCache
    /\ scannerCache = EmptyCache
    /\ lastOp = NoOp
    /\ chunker = IdleChunker
    /\ parser = IdleParser
    /\ sender = IdleSender

\* the config file of directory d is written, rewritten or removed
WriteFile(d) ==
    /\ ~Hung
    /\ \E f \in {None} \cup { Some(text) : text \in ReloadFiles } :
          /\ f # fs[d]
          /\ fs' = [fs EXCEPT ![d] = f]
    /\ lastOp' = [NoOp EXCEPT !.op = "write", !.dir = d]
    /\ UNCHANGED << configCache, directoryConfigCache, scannerCache,
                    chunker, parser, sender >>

NextReload ==
    \/ \E d \in Dirs : LoadConfigCall(d)
    \/ \E d \in Dirs : LoadDirCall(d)
    \/ \E d \in Dirs : WriteFile(d)
    \/ ClearLoaderCache
    \/ ClearCache

SpecReload == InitReload /\ [][NextReload]_loadVars

\* the step is a loadConfig call for the config file of directory d
LoadStep(d) == lastOp'.op = "load" /\ lastOp'.dir = d

\* C26: after loadConfig(p) has succeeded, every later loadConfig(p) on the
\* loader returns the cached configuration without reading the file again
\* (whatever the file holds by then, and the caches stay as they are) until
\* a clearCache; with nothing cached for p, loadConfig(p) reads the file as
\* it is then; ConfigLoader.clearCache empties the loader's two caches and
\* DirectoryScanner.clearCache these and the scanner's directory cache.
C26_CachedUntilCleared ==
    [][/\ \A d \in Dirs :
            /\ LoadStep(d) /\ IsSome(configCache[d]) =>
                  /\ lastOp'.kind = "ok"
                  /\ lastOp'.cfg = configCache[d]
                  /\ configCache' = configCache
                  /\ directoryConfigCache' = directoryConfigCache
            /\ LoadStep(d) /\ lastOp'.kind = "ok" => configCache'[d] = lastOp'.cfg
            /\ LoadStep(d) /\ ~IsSome(configCache[d]) /\ ~IsSome(fs[d]) =>
                  lastOp'.kind = "throw" /\ ~IsSome(configCache'[d])
            /\ LoadStep(d) /\ ~IsSome(configCache[d]) /\ IsSome(fs[d]) =>
                  /\ lastOp'.kind = "ok"
                  /\ Get(lastOp'.cfg).apiConfig = Get(fs[d]).apiConfig
            /\ lastOp'.op \notin {"clear", "clearScanner"} /\ IsSome(configCache[d]) =>
                  configCache'[d] = configCache[d]
       /\ lastOp'.op = "clear" =>
            /\ configCache' = EmptyCache
            /\ directoryConfigCache' = EmptyCache
            /\ scannerCache' = scannerCache
       /\ lastOp'.op = "clearScanner" =>
            /\ configCache' = EmptyCache
            /\ directoryConfigCache' = EmptyCache
            /\ scannerCache' = EmptyCache]_loadVars

\* loadConfig has returned a configuration that is no longer the one in the
\* file, while the scanner holds a directory's configuration too
C26_Witness ==
    /\ lastOp.op = "load"
    /\ lastOp.kind = "ok"
    /\ IsSome(fs[lastOp.dir])
    /\ Get(lastOp.cfg).apiConfig # Get(fs[lastOp.dir]).apiConfig
    /\ \E d \in Dirs : IsSome(scannerCache[d])

-----------------------------------------------------------------------------
(* loadConfigWithExpandedApiConfig on config files whose apiConfig strings  *)
(* hold placeholders, in any of a few environments.                         *)

\* the variables: A, in the .env files or the process environment or both,
\* and B, in the process environment only; the process environment may give
\* A the value "${B}", which holds a placeholder itself
ParsedEnvs == { [name \in { << "A" >> } |-> v] : v \in { None, Some(<< >>), Some(<< "v" >>) } }

ProcessEnvs ==
    { [name \in { << "A" >>, << "B" >> } |-> IF name = << "A" >> THEN a ELSE b] :
        a \in { None, Some(<< >>), Some(<< "w" >>), Some(<< "$", "{", "B", "}" >>) },
        b \in { None, Some(<< "b" >>) } }

Envs == { [parsed |-> p, process |-> q] : p \in ParsedEnvs, q \in ProcessEnvs }

\* apiConfig of "${A}", "${A:-d}", "x${A}y${B:-d:-e}", "0"
PlaceholderApi ==
    ApiConfig(<< "$", "{", "A", "}" >>,
              << "$", "{", "A", ":", "-", "d", "}" >>,
              << "x", "$", "{", "A", "}", "y",
                 "$", "{", "B", ":", "-", "d", ":", "-", "e", "}" >>,
              << "0" >>)

\* apiConfig of "${}", "$A{", "${B:-}", "${A}${B}"
OddApi ==
    ApiConfig(<< "$", "{", "}" >>,
              << "$", "A", "{" >>,
              << "$", "{", "B", ":", "-", "}" >>,
              << "$", "{", "A", "}", "$", "{", "B", "}" >>)

\* self-contained config files with either apiConfig, or with none
ExpandFiles ==
    { RawConfig("empty", Some(PlaceholderApi), None),
      RawConfig("empty", Some(OddApi), None),
      RawConfig("empty", None, None) }

\* the trees: one config file, in any directory, or none
OneFileTrees ==
    { f \in [Dirs -> {None} \cup { Some(file) : file \in ExpandFiles }] :
        Cardinality({ d \in Dirs : IsSome(f[d]) }) <= 1 }

InitExpand ==
    /\ fs \in OneFileTrees
    /\ configCache = EmptyCache
    /\ directoryConfigCache = EmptyCache
    /\ scannerCache = EmptyCache
    /\ lastOp = NoOp
    /\ chunker = IdleChunker
    /\ parser = IdleParser
    /\ sender = IdleSender

\* what a loadConfigWithExpandedApiConfig call leaves behind
ExpandedLoaded(d, env, r) ==
    /\ configCache' = r.cc
    /\ directoryConfigCache' = r.dc
    /\ lastOp' = [op |-> "loadExpanded", dir |-> d, env |-> env, kind |-> r.kind,
                  err |-> r.err, rule |-> << >>, api |-> None, cfg |-> r.val,
                  best |-> None, configs |-> << >>]

\* loadConfigWithExpandedApiConfig(d/ailintconfig.json) in the environment env
LoadExpandedCall(d, env) ==
    /\ ExpandedLoaded(d, env,
                      LoadConfigWithExpandedApiConfigIn(env, d, configCache,
                                                        directoryConfigCache))
    /\ UNCHANGED << fs, scannerCache, chunker, parser, sender >>

NextExpand ==
    \/ \E d \in Dirs, env \in Envs : LoadExpandedCall(d, env)
    \/ ClearLoaderCache

SpecExpand == InitExpand /\ [][NextExpand]_loadVars

\* what stands for a placeholder of variable name with the given default
\* text: the value of the variable when it is set and not empty (the .env
\* files come before the process environment), else the default text
Substitute(name, default, env) ==
    LET fromFiles == IF name \in DOMAIN env.parsed THEN env.parsed[name] ELSE None
        fromProcess == IF name \in DOMAIN env.process THEN env.process[name] ELSE None
    IN  IF fromFiles \notin { None, Some(<< >>) } THEN Get(fromFiles)
        ELSE IF fromProcess \notin { None, Some(<< >>) } THEN Get(fromProcess)
        ELSE default

\* the two apiConfigs of ExpandFiles with their placeholders replaced
ExpectedApi(apiConfig, env) ==
    IF apiConfig = PlaceholderApi
    THEN ApiConfig(Substitute(<< "A" >>, << >>, env),
                   Substitute(<< "A" >>, << "d" >>, env),
                   << "x" >> \o Substitute(<< "A" >>, << >>, env) \o << "y" >>
                      \o Substitute(<< "B" >>, << "d", ":", "-", "e" >>, env),
                   << "0" >>)
    ELSE ApiConfig(<< "$", "{", "}" >>,
                   << "$", "A", "{" >>,
                   Substitute(<< "B" >>, << >>, env),
                   Substitute(<< "A" >>, << >>, env) \o Substitute(<< "B" >>, << >>, env))

\* C27: loadConfigWithExpandedApiConfig replaces every ${NAME} and
\* ${NAME:-default} placeholder in the string fields of apiConfig by the
\* value of NAME when NAME is set and not empty and otherwise by the default
\* text (the empty string when none is given), and leaves fields without a
\* placeholder as they are; this is done once, when the file is loaded, and
\* a call that finds the configuration cached returns it as it is, without
\* evaluating it again.
C27_PlaceholdersReplaced ==
    [][lastOp'.op = "loadExpanded" =>
          IF IsSome(configCache[lastOp'.dir])
          THEN /\ lastOp'.kind = "ok"
               /\ lastOp'.cfg = configCache[lastOp'.dir]
               /\ configCache' = configCache
          ELSE IF ~IsSome(fs[lastOp'.dir]) THEN lastOp'.kind = "throw"
          ELSE /\ lastOp'.kind = "ok"
               /\ configCache'[lastOp'.dir] = lastOp'.cfg
               /\ IF IsSome(Get(fs[lastOp'.dir]).apiConfig)
                  THEN Get(Get(lastOp'.cfg).apiConfig)
                          = ExpectedApi(Get(Get(fs[lastOp'.dir]).apiConfig), lastOp'.env)
                  ELSE ~IsSome(Get(lastOp'.cfg).apiConfig)]_loadVars

-----------------------------------------------------------------------------
(* DirectoryScanner.scanDirectory.  A directory listing gives each          *)
(* directory of the chain its name, its .gitignore and its files; the one   *)
(* subdirectory of directory d is d + 1.  A path is the sequence of its     *)
(* components, an ignore pattern the sequence of the pieces between its     *)
(* slashes ("tmp/" is << "tmp", "" >>).                                     *)

\* the files every directory holds
ScanFileNames == << "a.ts", "B.TS", "c.txt", "d.png", "tmp" >>

\* extname(filePath)
Extname(name) ==
    CASE name = "a.ts" -> ".ts"
      [] name = "B.TS" -> ".TS"
      [] name = "c.txt" -> ".txt"
      [] name = "d.png" -> ".png"
      [] OTHER -> ""

\* String.prototype.toLowerCase on the extensions
ToLowerCase(ext) == IF ext = ".TS" THEN ".ts" ELSE ext

\* lookup(filePath) of mime-types: by the extension, whatever its case;
\* false (None) for a name without one
Lookup(name) ==
    CASE ToLowerCase(Extname(name)) = ".ts" -> Some("video/mp2t")
      [] ToLowerCase(Extname(name)) = ".txt" -> Some("text/plain")
      [] ToLowerCase(Extname(name)) = ".png" -> Some("image/png")
      [] OTHER -> None

\* pattern.endsWith('/*')
EndsWithSlashStar(pattern) == pattern \in { "text/*", "image/*", "video/*" }

\* the text before the slash of a MIME type or pattern
MimePrefix(str) ==
    CASE str \in { "text/*", "text/plain" } -> "text"
      [] str \in { "image/*", "image/png" } -> "image"
      [] str \in { "video/*", "video/mp2t" } -> "video"
      [] OTHER -> str

\* matchesMimePattern
MatchesMimePattern(mimeType, pattern) ==
    IF EndsWithSlashStar(pattern) THEN MimePrefix(mimeType) = MimePrefix(pattern)
    ELSE mimeType = pattern

\* isIncludedFile with the extension compared as it is written
IsIncludedFileAsWritten(name, config) ==
    \/ /\ IsSome(config.includeExtensions)
       /\ \E i \in 1..Len(Get(config.includeExtensions)) :
             Get(config.includeExtensions)[i] = Extname(name)
    \/ /\ IsSome(config.includeMimeTypes)
       /\ IsSome(Lookup(name))
       /\ \E i \in 1..Len(Get(config.includeMimeTypes)) :
             MatchesMimePattern(Get(Lookup(name)), Get(config.includeMimeTypes)[i])

\* isIncludedFile
IsIncludedFile(name, config) ==
    \/ /\ IsSome(config.includeExtensions)
       /\ \E i \in 1..Len(Get(config.includeExtensions)) :
             Get(config.includeExtensions)[i] = ToLowerCase(Extname(name))
    \/ /\ IsSome(config.includeMimeTypes)
       /\ IsSome(Lookup(name))
       /\ \E i \in 1..Len(Get(config.includeMimeTypes)) :
             MatchesMimePattern(Get(Lookup(name)), Get(config.includeMimeTypes)[i])

\* a pattern of the ignore package on a path: a pattern of one piece matches
\* a component of that name at any depth, a pattern of several pieces the
\* path from the top; with a trailing slash, directories only; what lies
\* under a matched directory is matched too
PatternIgnores(pattern, path, isDirectory) ==
    LET dirOnly == pattern[Len(pattern)] = ""
        pieces == IF dirOnly THEN SubSeq(pattern, 1, Len(pattern) - 1) ELSE pattern
    IN  \E k \in 1..Len(path) :
            /\ dirOnly => (k < Len(path) \/ isDirectory)
            /\ IF Len(pieces) = 1 THEN path[k] = pieces[1]
               ELSE k = Len(pieces) /\ SubSeq(path, 1, k) = pieces

\* shouldIgnore: ig.ignores(checkPath)
ShouldIgnore(patterns, path, isDirectory) ==
    \E i \in 1..Len(patterns) : PatternIgnores(patterns[i], path, isDirectory)

\* relative(rootPath, dirPath), in components
RECURSIVE RelativeDir(_, _, _)
RelativeDir(tree, rootPath, dirPath) ==
    IF dirPath <= rootPath THEN << >>
    ELSE Append(RelativeDir(tree, rootPath, dirPath - 1), tree[dirPath].name)

\* the patterns of one .gitignore: its lines but the empty ones and the
\* comments, each behind the path of its directory below the root
RECURSIVE PatternsOf(_, _)
PatternsOf(lines, relativeToRoot) ==
    IF lines = << >> THEN << >>
    ELSE IF Head(lines).kind = "pattern"
    THEN << relativeToRoot \o Head(lines).pattern >> \o PatternsOf(Tail(lines), relativeToRoot)
    ELSE PatternsOf(Tail(lines), relativeToRoot)

\* loadGitIgnorePatterns: from dirPath up to rootPath
RECURSIVE LoadGitIgnorePatterns(_, _, _)
LoadGitIgnorePatterns(tree, dirPath, rootPath) ==
    (IF IsSome(tree[dirPath].gitignore)
     THEN PatternsOf(Get(tree[dirPath].gitignore), RelativeDir(tree, rootPath, dirPath))
     ELSE << >>)
    \o (IF dirPath = rootPath \/ Dirname(dirPath) = dirPath THEN << >>
        ELSE LoadGitIgnorePatterns(tree, Dirname(dirPath), rootPath))

\* the ignore instance of a directory: config.ignore, and the .gitignore
\* patterns if config.useGitIgnore
IgnoreInstance(tree, config, currentPath, rootPath) ==
    OrEmpty(config.ignore)
    \o (IF config.useGitIgnore = Some(TRUE)
        THEN LoadGitIgnorePatterns(tree, currentPath, rootPath) ELSE << >>)

\* the files of currentPath that are not ignored and are included
ScannedFiles(tree, config, ig, currentPath, rootPath) ==
    SelectSeq([i \in 1..Len(ScanFileNames) |-> << currentPath, ScanFileNames[i] >>],
              LAMBDA file :
                 /\ ~ShouldIgnore(ig, Append(RelativeDir(tree, rootPath, currentPath),
                                             file[2]), FALSE)
                 /\ IsIncludedFile(file[2], config))

RECURSIVE ScanRecursive(_, _, _, _)

\* _scanRecursive with the config of currentPath known: the files, then the
\* subdirectory unless it is ignored
ScanEntries(tree, rootPath, currentPath, acc, config) ==
    IF /\ currentPath < MaxDir
       /\ ~ShouldIgnore(IgnoreInstance(tree, config, currentPath, rootPath),
                        RelativeDir(tree, rootPath, currentPath + 1), TRUE)
    THEN ScanRecursive(tree, rootPath, currentPath + 1,
                       [acc EXCEPT !.files = @ \o ScannedFiles(tree, config,
                                      IgnoreInstance(tree, config, currentPath, rootPath),
                                      currentPath, rootPath)])
    ELSE [acc EXCEPT !.files = @ \o ScannedFiles(tree, config,
                                      IgnoreInstance(tree, config, currentPath, rootPath),
                                      currentPath, rootPath)]

\* _scanRecursive once loadConfigForDirectory has given r: the base config
\* if there is none
ScanLoaded(tree, rootPath, currentPath, acc, r) ==
    IF r.kind = "hang" THEN [acc EXCEPT !.kind = "hang", !.sc = r.sc, !.cc = r.cc, !.dc = r.dc]
    ELSE IF r.kind # "ok" THEN [acc EXCEPT !.sc = r.sc, !.cc = r.cc, !.dc = r.dc]
    ELSE ScanEntries(tree, rootPath, currentPath,
                     [acc EXCEPT !.sc = r.sc, !.cc = r.cc, !.dc = r.dc],
                     IF IsSome(r.val) THEN Get(r.val) ELSE BaseConfigFile)

ScanRecursive(tree, rootPath, currentPath, acc) ==
    ScanLoaded(tree, rootPath, currentPath, acc,
               LoadConfigForDirectory(currentPath, acc.sc, acc.cc, acc.dc))

\* scanDirectory(dirPath) on the listing tree
ScanDirectory(tree, dirPath, sc, cc, dc) ==
    ScanRecursive(tree, dirPath, dirPath,
                  [kind |-> "ok", files |-> << >>, sc |-> sc, cc |-> cc, dc |-> dc])

-----------------------------------------------------------------------------
(* scanDirectory from any directory of the chain, on any of a few listings  *)
(* and config files.                                                        *)

\* self-contained config files: .ts and text/* without dist, with
\* .gitignore; .txt, image/png and video/* without .gitignore
ScanConfigs ==
    { ConfigFile("empty", Some(<< ".ts" >>), Some(<< "text/*" >>),
                 Some(<< << "dist" >> >>), Some(TRUE), None, None),
      ConfigFile("empty", Some(<< ".txt" >>), Some(<< "image/png", "video/*" >>),
                 None, Some(FALSE), None, None) }

\* the .gitignore a directory may hold: a comment and a.ts, or tmp/, an
\* empty line and c.txt
GitIgnoreFiles(d) ==
    IF d % 2 = 0
    THEN { None, Some(<< [kind |-> "comment", pattern |-> << >>],
                         [kind |-> "pattern", pattern |-> << "a.ts" >>] >>) }
    ELSE { None, Some(<< [kind |-> "pattern", pattern |-> << "tmp", "" >>],
                         [kind |-> "empty", pattern |-> << >>],
                         [kind |-> "pattern", pattern |-> << "c.txt" >>] >>) }

DirectoryNames(d) == IF d % 2 = 1 THEN { "src", "dist" } ELSE { "lib", "tmp" }

Listings ==
    { tree \in [Dirs -> [name : { "src", "dist", "lib", "tmp" },
                         gitignore : UNION { GitIgnoreFiles(d) : d \in Dirs }]] :
        \A d \in Dirs : /\ tree[d].name \in DirectoryNames(d)
                        /\ tree[d].gitignore \in GitIgnoreFiles(d)
                        /\ d = 0 => tree[d].name = "lib" }

\* the filesystem root holds a config file
InitScan ==
    /\ fs \in { f \in [Dirs -> {None} \cup { Some(c) : c \in ScanConfigs }] : IsSome(f[0]) }
    /\ configCache = EmptyCache
    /\ directoryConfigCache = EmptyCache
    /\ scannerCache = EmptyCache
    /\ lastOp = NoOp
    /\ chunker = IdleChunker
    /\ parser = IdleParser
    /\ sender = IdleSender

\* what a scanDirectory call leaves behind
Scanned(d, tree, r) ==
    /\ configCache' = r.cc
    /\ directoryConfigCache' = r.dc
    /\ scannerCache' = r.sc
    /\ lastOp' = [op |-> "scan", dir |-> d, tree |-> tree, kind |-> r.kind,
                  files |-> r.files, err |-> "", rule |-> << >>, api |-> None,
                  cfg |-> None, best |-> None, configs |-> << >>]

\* scanDirectory(d), the directories holding what tree lists
ScanCall(d, tree) ==
    /\ ~Hung
    /\ Scanned(d, tree, ScanDirectory(tree, d, scannerCache, configCache,
                                      directoryConfigCache))
    /\ UNCHANGED << fs, chunker, parser, sender >>

NextScan ==
    \/ \E d \in Dirs, tree \in Listings : ScanCall(d, tree)
    \/ ClearCache

SpecScan == InitScan /\ [][NextScan]_resolveVars

\* the config file nearest to directory d, at or above it
InForce(d) ==
    Get(fs[CHOOSE x \in 0..d : IsSome(fs[x]) /\ \A y \in (x + 1)..d : ~IsSome(fs[y])])

\* the components of directory d below the scan root
PathBelowRoot(d) == [i \in 1..(d - lastOp.dir) |-> lastOp.tree[lastOp.dir + i].name]

\* the .gitignore patterns of the directories from the scan root to d, as
\* the matcher is given them: a pattern of a .gitignore below the scan root
\* stands behind the path of its directory, so it is anchored there
GitIgnoreRules(d) ==
    { PathBelowRoot(x) \o Get(lastOp.tree[x].gitignore)[i].pattern :
        << x, i >> \in { << x, i >> \in (lastOp.dir..d) \X (1..3) :
                          /\ IsSome(lastOp.tree[x].gitignore)
                          /\ i <= Len(Get(lastOp.tree[x].gitignore))
                          /\ Get(lastOp.tree[x].gitignore)[i].kind = "pattern" } }

\* the ignore rules in force in directory d
RulesAt(d) ==
    (IF IsSome(InForce(d).ignore)
     THEN { Get(InForce(d).ignore)[i] : i \in 1..Len(Get(InForce(d).ignore)) }
     ELSE {})
    \cup (IF InForce(d).useGitIgnore = Some(TRUE) THEN GitIgnoreRules(d) ELSE {})

\* directory x, below the scan root, is matched by the rules of its parent
DirectoryIgnored(x) ==
    \E pattern \in RulesAt(x - 1) : PatternIgnores(pattern, PathBelowRoot(x), TRUE)

\* the file called name of directory d, or a directory above it, is matched
\* by the rules of d
FileIgnored(d, name) ==
    \E pattern \in RulesAt(d) :
        PatternIgnores(pattern, Append(PathBelowRoot(d), name), FALSE)

\* the lower-cased extension is listed, or the MIME type matches an entry
Included(d, name) ==
    \/ /\ IsSome(InForce(d).includeExtensions)
       /\ ToLowerCase(Extname(name))
             \in { Get(InForce(d).includeExtensions)[i] :
                     i \in 1..Len(Get(InForce(d).includeExtensions)) }
    \/ /\ IsSome(InForce(d).includeMimeTypes)
       /\ IsSome(Lookup(name))
       /\ \E i \in 1..Len(Get(InForce(d).includeMimeTypes)) :
             \/ Get(InForce(d).includeMimeTypes)[i] = Get(Lookup(name))
             \/ /\ EndsWithSlashStar(Get(InForce(d).includeMimeTypes)[i])
                /\ MimePrefix(Get(InForce(d).includeMimeTypes)[i])
                      = MimePrefix(Get(Lookup(name)))

ScanReturned(d, name) ==
    \E i \in 1..Len(lastOp.files) : lastOp.files[i] = << d, name >>

\* C30: scanDirectory returns a file iff neither the file nor a directory
\* between it and the scan root is matched by the ignore rules in force (the
\* ignore list of the config, and the .gitignore patterns when useGitIgnore
\* is true) and its lower-cased extension is in includeExtensions or its MIME
\* type matches an includeMimeTypes entry, exactly or by type for "type/*";
\* nothing under an ignored directory is returned, and no file twice.
C30_ScanReturnsIncluded ==
    lastOp.op = "scan" =>
        /\ lastOp.kind = "ok"
        /\ \A d \in Dirs :
              \A i \in 1..Len(ScanFileNames) :
                  ScanReturned(d, ScanFileNames[i])
                  <=> /\ d >= lastOp.dir
                      /\ \A x \in (lastOp.dir + 1)..d : ~DirectoryIgnored(x)
                      /\ ~FileIgnored(d, ScanFileNames[i])
                      /\ Included(d, ScanFileNames[i])
        /\ \A i, j \in 1..Len(lastOp.files) :
              lastOp.files[i] = lastOp.files[j] => i = j

\* a scan from the top: B.TS of the subdirectory is returned for its
\* extension .ts, a.ts of the root is left out by the .gitignore there, and
\* the directory below the subdirectory is ignored
C30_Witness ==
    /\ lastOp.op = "scan"
    /\ lastOp.dir = 0
    /\ ScanReturned(1, "B.TS")
    /\ Included(0, "a.ts")
    /\ ~ScanReturned(0, "a.ts")
    /\ DirectoryIgnored(2)
    /\ Included(2, "c.txt")

=============================================================================
